---- MODULE Spec2Model ----
(***************************************************************************)
(* Model of xscen/utils.py: dataset-wrangling utilities.  Every function   *)
(* of the module is a synchronous call; each gets a variable holding the   *)
(* call in progress (its arguments, its position, its result) and one      *)
(* specification whose initial states draw the arguments from bounded      *)
(* sets.                                                                   *)
(***************************************************************************)
EXTENDS Integers, Sequences, FiniteSets, TLC

VARIABLES mc, stk, cu, cl, ud, cv, tc, ns, se

vars == <<mc, stk, cu, cl, ud, cv, tc, ns, se>>

\* A component no call is in progress on.
Idle == [pc |-> "idle"]

\* Longest argument list given to minimum_calendar.
MaxCals == 2

(***************************************************************************)
(* Generic helpers on sequences (Python lists, tuples, strings, ordered    *)
(* dicts).  A Python string is a sequence of one-character strings.        *)
(***************************************************************************)
Range(s) == {s[i] : i \in DOMAIN s}

SeqsUpTo(S, n) == UNION {[1..k -> S] : k \in 0..n}

NonEmptySeqsUpTo(S, n) == UNION {[1..k -> S] : k \in 1..n}

(***************************************************************************)
(* minimum_calendar                                                        *)
(***************************************************************************)
CalendarNames ==
    {"360_day", "noleap", "365_day", "standard", "all_leap", "366_day", "gregorian"}

minimum_calendar_noleap_last(calendars) ==
    IF "360_day" \in Range(calendars) THEN "360_day"
    ELSE IF \A i \in DOMAIN calendars : calendars[i] \in {"all_leap", "366_day"}
         THEN "all_leap"
    ELSE IF \E i \in DOMAIN calendars : calendars[i] \in {"all_leap", "366_day"}
         THEN "standard"
    ELSE IF "noleap" \in Range(calendars) \/ "365_day" \in Range(calendars)
         THEN "noleap"
    ELSE "standard"

\* A version for which one all_leap calendar is enough to answer "all_leap".
minimum_calendar_any_leap(calendars) ==
    IF "360_day" \in Range(calendars) THEN "360_day"
    ELSE IF "noleap" \in Range(calendars) \/ "365_day" \in Range(calendars)
         THEN "noleap"
    ELSE IF \E i \in DOMAIN calendars : calendars[i] \in {"all_leap", "366_day"}
         THEN "all_leap"
    ELSE "standard"

minimum_calendar(calendars) ==
    IF "360_day" \in Range(calendars) THEN "360_day"
    ELSE IF "noleap" \in Range(calendars) \/ "365_day" \in Range(calendars)
         THEN "noleap"
    ELSE IF \A i \in DOMAIN calendars : calendars[i] \in {"all_leap", "366_day"}
         THEN "all_leap"
    ELSE "standard"

InitMC ==
    /\ mc \in {[pc |-> "call", calendars |-> c] :
                 c \in NonEmptySeqsUpTo(CalendarNames, MaxCals)}
    /\ stk = Idle /\ cu = Idle /\ cl = Idle /\ ud = Idle /\ cv = Idle /\ tc = Idle /\ ns = Idle /\ se = Idle

CallMinimumCalendar ==
    /\ mc.pc = "call"
    /\ mc' = [pc |-> "done", calendars |-> mc.calendars,
              result |-> minimum_calendar(mc.calendars)]
    /\ UNCHANGED <<stk, cu, cl, ud, cv, tc, ns, se>>

NextMC == CallMinimumCalendar

SpecMC == InitMC /\ [][NextMC]_vars

\* C10 (as amended): minimum_calendar("standard","360_day") returns "360_day",
\* minimum_calendar("noleap","all_leap") returns "noleap" (the lowest calendar
\* present under 360_day < noleap < standard < all_leap), and
\* minimum_calendar("all_leap","366_day") returns "all_leap".
C10_Examples ==
    mc.pc = "done" =>
        /\ (mc.calendars = <<"standard", "360_day">> => mc.result = "360_day")
        /\ (mc.calendars = <<"noleap", "all_leap">> => mc.result = "noleap")
        /\ (mc.calendars = <<"all_leap", "366_day">> => mc.result = "all_leap")

C10_Witness ==
    /\ mc.pc = "done"
    /\ mc.calendars = <<"noleap", "all_leap">>
    /\ mc.result = "noleap"

\* C10 (as stated): the three results listed as testable properties, among them
\* minimum_calendar("noleap","all_leap") returning "standard".
C10_Original ==
    mc.pc = "done" =>
        /\ (mc.calendars = <<"standard", "360_day">> => mc.result = "360_day")
        /\ (mc.calendars = <<"noleap", "all_leap">> => mc.result = "standard")
        /\ (mc.calendars = <<"all_leap", "366_day">> => mc.result = "all_leap")

\* The rank of a calendar name in the hierarchy 360_day < noleap < standard < all_leap.
C11_Rank(cal) ==
    CASE cal = "360_day" -> 1
      [] cal \in {"noleap", "365_day"} -> 2
      [] cal \in {"all_leap", "366_day"} -> 4
      [] OTHER -> 3

C11_Name(rank) ==
    CASE rank = 1 -> "360_day"
      [] rank = 2 -> "noleap"
      [] rank = 3 -> "standard"
      [] rank = 4 -> "all_leap"

\* C11: for a non-empty argument list minimum_calendar returns the canonical name of
\* the lowest rank present (365_day ranked as noleap, 366_day as all_leap, any other
\* name as standard); the result is one of the four canonical names, and every
\* argument list with the same set of names (reordered, repeated) gives the same result.
C11_LowestRank ==
    mc.pc = "done" =>
        /\ Len(mc.calendars) >= 1
        /\ \E i \in DOMAIN mc.calendars :
              /\ \A j \in DOMAIN mc.calendars :
                    C11_Rank(mc.calendars[i]) <= C11_Rank(mc.calendars[j])
              /\ mc.result = C11_Name(C11_Rank(mc.calendars[i]))
        /\ mc.result \in {"360_day", "noleap", "standard", "all_leap"}
        /\ \A c \in NonEmptySeqsUpTo(Range(mc.calendars), MaxCals + 1) :
              Range(c) = Range(mc.calendars) => minimum_calendar(c) = mc.result

\* A name outside the hierarchy next to an all_leap one: the answer is "standard".
C11_Witness ==
    /\ mc.pc = "done"
    /\ mc.calendars = <<"366_day", "gregorian">>
    /\ mc.result = "standard"

(***************************************************************************)
(* stack_drop_nans / unstack_fill_nan                                      *)
(*                                                                         *)
(* A dataset over the mask's dimensions (lat, lon) is a record of the two  *)
(* coordinate arrays and one data array indexed by position <<i, j>>.  The *)
(* stacked dataset is the sequence of its points along the new dimension,  *)
(* each carrying its lat, its lon and its value.                           *)
(***************************************************************************)
\* Largest size of a grid dimension.
MaxDim == 2

\* The missing value unstack and reindex fill with (fill_value's default).
NaN == -1

Positions(ny, nx) == (1..ny) \X (1..nx)

\* Coordinate arrays of length n: ascending or descending, never repeating.
LatChoices(n) == {[i \in 1..n |-> 10 * i], [i \in 1..n |-> 10 * (n + 1 - i)]}

LonChoices(n) == {[j \in 1..n |-> 100 * j], [j \in 1..n |-> 100 * (n + 1 - j)]}

DataChoices(ny, nx) ==
    { [p \in Positions(ny, nx) |-> 10 * p[1] + p[2]],
      [p \in Positions(ny, nx) |-> 7],
      [p \in Positions(ny, nx) |-> IF p = <<1, 1>> THEN NaN ELSE 10 * p[1] + p[2]] }

Datasets ==
    UNION { { [lat |-> la, lon |-> lo, data |-> d] :
                la \in LatChoices(ny), lo \in LonChoices(nx), d \in DataChoices(ny, nx) } :
            ny \in 1..MaxDim, nx \in 1..MaxDim }

Masks(ds) == [Positions(Len(ds.lat), Len(ds.lon)) -> BOOLEAN]

\* mask.shape
Shape(ds) == <<Len(ds.lat), Len(ds.lon)>>

\* The set S of integers as the ascending sequence (the sorted levels of an index).
SortedSeq(S) ==
    CHOOSE s \in [1..Cardinality(S) -> S] :
        \A a, b \in 1..Cardinality(S) : a < b => s[a] < s[b]

\* stack({new_dim: mask.dims}): the positions in flattened order, first dimension slowest.
StackColumnMajor(ny, nx) ==
    [k \in 1..(ny * nx) |-> <<((k - 1) % ny) + 1, ((k - 1) \div ny) + 1>>]

Stack(ny, nx) ==
    [k \in 1..(ny * nx) |-> <<((k - 1) \div nx) + 1, ((k - 1) % nx) + 1>>]

\* .where(mask_1d, drop=True): the stacked positions where the mask is true, in order.
WhereDrop(stacked, mask) == SelectSeq(stacked, LAMBDA p : mask[p])

\* The dataset written to to_file: mask.coords.to_dataset(), under the formatted name.
CoordsFile(ds) == [shape |-> Shape(ds), lat |-> ds.lat, lon |-> ds.lon]

stack_drop_nans(ds, mask, to_file) ==
    LET original_shape == Shape(ds)
        kept == WhereDrop(Stack(Len(ds.lat), Len(ds.lon)), mask)
    IN  [ out |-> [ loc |-> [k \in DOMAIN kept |->
                                [lat |-> ds.lat[kept[k][1]],
                                 lon |-> ds.lon[kept[k][2]],
                                 val |-> ds.data[kept[k]]]],
                    original_shape |-> original_shape ],
          files |-> IF to_file THEN {CoordsFile(ds)} ELSE {} ]

\* assign_coords({dim: MultiIndex.from_arrays(crds)}).unstack(dim): the new dimensions
\* are the sorted values present among the points; absent combinations are filled.
Unstack(loc) ==
    LET lat == SortedSeq({loc[k].lat : k \in DOMAIN loc})
        lon == SortedSeq({loc[k].lon : k \in DOMAIN loc})
    IN  [ lat |-> lat, lon |-> lon,
          data |-> [p \in Positions(Len(lat), Len(lon)) |->
                      IF \E k \in DOMAIN loc : loc[k].lat = lat[p[1]] /\ loc[k].lon = lon[p[2]]
                      THEN loc[CHOOSE k \in DOMAIN loc :
                                 loc[k].lat = lat[p[1]] /\ loc[k].lon = lon[p[2]]].val
                      ELSE NaN] ]

\* out.reindex(**coords.coords): the dataset on the given coordinate arrays, by label.
ReindexSkipped(un, crd) == un

Reindex(un, crd) ==
    [ lat |-> crd.lat, lon |-> crd.lon,
      data |-> [p \in Positions(Len(crd.lat), Len(crd.lon)) |->
                  IF \E q \in DOMAIN un.data :
                        un.lat[q[1]] = crd.lat[p[1]] /\ un.lon[q[2]] = crd.lon[p[2]]
                  THEN un.data[CHOOSE q \in DOMAIN un.data :
                                  un.lat[q[1]] = crd.lat[p[1]] /\ un.lon[q[2]] = crd.lon[p[2]]]
                  ELSE NaN] ]

\* coords is None (every coordinate along dim is an original dimension), the name of
\* the file stack_drop_nans wrote, formatted with the stored original_shape, or a dict
\* from the name of each original dimension to its array.  A dict is neither a list
\* nor a str: the code goes on to coords.coords, which a dict does not have.
unstack_fill_nan(out, coords, files) ==
    LET un == Unstack(out.loc)
    IN  IF coords = "file"
        THEN IF \E f \in files : f.shape = out.original_shape
             THEN [pc |-> "unstacked",
                   res |-> Reindex(un, CHOOSE f \in files : f.shape = out.original_shape)]
             ELSE [pc |-> "error", res |-> "FileNotFoundError"]
        ELSE IF coords = "mapping"
        THEN [pc |-> "error", res |-> "AttributeError"]
        ELSE [pc |-> "unstacked", res |-> un]

InitStack ==
    /\ stk \in UNION { { [pc |-> "call", ds |-> ds, mask |-> m] : m \in Masks(ds) } :
                       ds \in Datasets }
    /\ mc = Idle /\ cu = Idle /\ cl = Idle /\ ud = Idle /\ cv = Idle /\ tc = Idle /\ ns = Idle /\ se = Idle

CallStackDropNans ==
    /\ stk.pc = "call"
    /\ \E to_file \in BOOLEAN :
         LET r == stack_drop_nans(stk.ds, stk.mask, to_file)
         IN  stk' = [pc |-> "stacked", ds |-> stk.ds, mask |-> stk.mask,
                     out |-> r.out, files |-> r.files]
    /\ UNCHANGED <<mc, cu, cl, ud, cv, tc, ns, se>>

CallUnstackFillNan ==
    /\ stk.pc = "stacked"
    /\ \E coords \in {"none", "file", "mapping"} :
         LET r == unstack_fill_nan(stk.out, coords, stk.files)
         IN  stk' = [pc |-> r.pc, ds |-> stk.ds, mask |-> stk.mask, out |-> stk.out,
                     files |-> stk.files, coords |-> coords, res |-> r.res]
    /\ UNCHANGED <<mc, cu, cl, ud, cv, tc, ns, se>>

NextStack == CallStackDropNans \/ CallUnstackFillNan

SpecStack == InitStack /\ [][NextStack]_vars

\* The position of the original grid that carries the labels (la, lo).
PosOf(ds, la, lo) ==
    CHOOSE p \in Positions(Len(ds.lat), Len(ds.lon)) :
        ds.lat[p[1]] = la /\ ds.lon[p[2]] = lo

TruePositions(ds, mask) == {p \in Positions(Len(ds.lat), Len(ds.lon)) : mask[p]}

\* C2: the points of the new dimension are exactly the grid points where the mask is
\* true (none dropped, none added, none repeated), in the row-major order of the
\* mask's dimensions, each with its original lat, lon and value.
C2_StackedPoints ==
    stk.pc = "stacked" =>
        LET loc == stk.out.loc
            ds == stk.ds
            flat(p) == (p[1] - 1) * Len(ds.lon) + p[2]
        IN  /\ Len(loc) = Cardinality(TruePositions(ds, stk.mask))
            /\ \A p \in TruePositions(ds, stk.mask) :
                 \E k \in DOMAIN loc :
                    loc[k] = [lat |-> ds.lat[p[1]], lon |-> ds.lon[p[2]], val |-> ds.data[p]]
            /\ \A k \in DOMAIN loc :
                 \E p \in TruePositions(ds, stk.mask) :
                    loc[k] = [lat |-> ds.lat[p[1]], lon |-> ds.lon[p[2]], val |-> ds.data[p]]
            /\ \A k, l \in DOMAIN loc :
                 k < l => flat(PosOf(ds, loc[k].lat, loc[k].lon))
                            < flat(PosOf(ds, loc[l].lat, loc[l].lon))

C2_Witness ==
    /\ stk.pc = "stacked"
    /\ Shape(stk.ds) = <<2, 2>>
    /\ stk.ds.lat = <<20, 10>>
    /\ stk.mask = [p \in Positions(2, 2) |-> p # <<1, 1>>]
    /\ Len(stk.out.loc) = 3
    /\ stk.out.loc[1] = [lat |-> 20, lon |-> stk.ds.lon[2], val |-> 12]

\* C1 (as amended): after stack_drop_nans then unstack_fill_nan, with coords the
\* side-car file the result is on the full original grid, in its original order; with
\* coords left at its default it is on the rows and columns that hold at least one
\* true point of the mask, sorted ascending.  On the grid it is defined on, it holds the
\* value of D where the mask is true and the missing value where it is false.
C1_RoundTrip ==
    stk.pc = "unstacked" =>
        LET ds == stk.ds
            res == stk.res
            T == TruePositions(ds, stk.mask)
        IN  /\ stk.coords = "file" => res.lat = ds.lat /\ res.lon = ds.lon
            /\ stk.coords = "none" =>
                 /\ res.lat = SortedSeq({ds.lat[p[1]] : p \in T})
                 /\ res.lon = SortedSeq({ds.lon[p[2]] : p \in T})
            /\ DOMAIN res.data = Positions(Len(res.lat), Len(res.lon))
            /\ \A q \in DOMAIN res.data :
                 LET p == PosOf(ds, res.lat[q[1]], res.lon[q[2]])
                 IN  res.data[q] = IF stk.mask[p] THEN ds.data[p] ELSE NaN

\* A mask false on a whole row, unstacked with coords at its default: the row is gone.
C1_Witness ==
    /\ stk.pc = "unstacked"
    /\ stk.coords = "none"
    /\ Shape(stk.ds) = <<2, 2>>
    /\ stk.mask = [p \in Positions(2, 2) |-> p[1] = 2]
    /\ Len(stk.res.lat) = 1
    /\ Len(stk.res.lon) = 2

\* C1 (as stated): with coords at its default or the side-car file, the result is
\* defined on the full original grid, with the value of D where the mask is true and
\* the missing value where it is false.
C1_Original ==
    stk.pc = "unstacked" =>
        LET ds == stk.ds
            res == stk.res
        IN  /\ Range(res.lat) = Range(ds.lat)
            /\ Range(res.lon) = Range(ds.lon)
            /\ \A p \in Positions(Len(ds.lat), Len(ds.lon)) :
                 \E q \in DOMAIN res.data :
                    /\ res.lat[q[1]] = ds.lat[p[1]]
                    /\ res.lon[q[2]] = ds.lon[p[2]]
                    /\ res.data[q] = IF stk.mask[p] THEN ds.data[p] ELSE NaN

\* C14: unstack_fill_nan given coords as a dict from each original dimension to its
\* coordinate values completes, and returns the dataset on exactly those coordinate
\* values, the stacked values at their coordinates and the missing value elsewhere.
C14_MappingCoords ==
    (stk.pc \in {"unstacked", "error"} /\ stk.coords = "mapping") =>
        /\ stk.pc = "unstacked"
        /\ stk.res.lat = stk.ds.lat
        /\ stk.res.lon = stk.ds.lon
        /\ DOMAIN stk.res.data = Positions(Len(stk.ds.lat), Len(stk.ds.lon))
        /\ \A p \in DOMAIN stk.res.data :
              stk.res.data[p] = IF stk.mask[p] THEN stk.ds.data[p] ELSE NaN

(***************************************************************************)
(* change_units                                                            *)
(*                                                                         *)
(* A unit string is parsed by units2pint into a unit: its name and its     *)
(* dimensionality, a mapping from the dimensions with a non-zero exponent  *)
(* to that exponent.  Two spellings of one unit parse to the same unit.    *)
(***************************************************************************)
UnitStrings == {"mm", "mm/d", "mm d-1", "K", "degC", "m s-2", "s"}

units2pint(u) ==
    CASE u = "mm"     -> [unit |-> "millimeter", dimensionality |-> [d \in {"[length]"} |-> 1]]
      [] u = "mm/d"   -> [unit |-> "millimeter / day",
                          dimensionality |-> [d \in {"[length]", "[time]"} |->
                                                 IF d = "[time]" THEN -1 ELSE 1]]
      [] u = "mm d-1" -> [unit |-> "millimeter / day",
                          dimensionality |-> [d \in {"[length]", "[time]"} |->
                                                 IF d = "[time]" THEN -1 ELSE 1]]
      [] u = "K"      -> [unit |-> "kelvin", dimensionality |-> [d \in {"[temperature]"} |-> 1]]
      [] u = "degC"   -> [unit |-> "degree_Celsius",
                          dimensionality |-> [d \in {"[temperature]"} |-> 1]]
      [] u = "m s-2"  -> [unit |-> "meter / second ** 2",
                          dimensionality |-> [d \in {"[length]", "[time]"} |->
                                                 IF d = "[time]" THEN -2 ELSE 1]]
      [] u = "s"      -> [unit |-> "second", dimensionality |-> [d \in {"[time]"} |-> 1]]

\* dimensionality.get(key): the container answers 0 for a dimension it does not hold.
DimGet(dimensionality, key) ==
    IF key \in DOMAIN dimensionality THEN dimensionality[key] ELSE 0

\* The branch of change_units taken for a variable in unit `src` asked in unit `out`.
ConversionKindSwapped(src, out) ==
    LET time_in_ds == DimGet(units2pint(src).dimensionality, "[time]")
        time_in_out == DimGet(units2pint(out).dimensionality, "[time]")
    IN  IF time_in_ds = time_in_out THEN "convert_units_to"
        ELSE IF time_in_ds - time_in_out = 1 THEN "rate2amount"
        ELSE IF time_in_ds - time_in_out = -1 THEN "amount2rate"
        ELSE "NotImplementedError"

ConversionKind(src, out) ==
    LET time_in_ds == DimGet(units2pint(src).dimensionality, "[time]")
        time_in_out == DimGet(units2pint(out).dimensionality, "[time]")
    IN  IF time_in_ds = time_in_out THEN "convert_units_to"
        ELSE IF time_in_ds - time_in_out = 1 THEN "amount2rate"
        ELSE IF time_in_ds - time_in_out = -1 THEN "rate2amount"
        ELSE "NotImplementedError"

\* The loop of change_units from entry i of variables_and_units on.  ds maps each
\* variable to its unit string; log lists the conversions applied, in order.
RECURSIVE ChangeUnitsFrom(_, _, _, _)
ChangeUnitsFrom(ds, variables_and_units, i, log) ==
    IF i > Len(variables_and_units)
    THEN [pc |-> "done", ds |-> ds, log |-> log]
    ELSE LET v == variables_and_units[i][1]
             out == variables_and_units[i][2]
         IN  IF v \in DOMAIN ds /\ units2pint(ds[v]).unit # units2pint(out).unit
             THEN LET kind == ConversionKind(ds[v], out)
                      entry == [var |-> v, from |-> ds[v], to |-> out, kind |-> kind]
                  IN  IF kind = "NotImplementedError"
                      THEN [pc |-> "error", ds |-> ds, log |-> Append(log, entry)]
                      ELSE ChangeUnitsFrom([ds EXCEPT ![v] = out], variables_and_units,
                                           i + 1, Append(log, entry))
             ELSE ChangeUnitsFrom(ds, variables_and_units, i + 1, log)

change_units(ds, variables_and_units) == ChangeUnitsFrom(ds, variables_and_units, 1, <<>>)

VariableNames == {"pr", "tas"}

\* A dict from variable names to unit strings, as the sequence of its items.
UnitDicts ==
    {<<>>}
    \cup {<<<<v, u>>>> : v \in VariableNames, u \in UnitStrings}
    \cup {d \in (VariableNames \X UnitStrings) \X (VariableNames \X UnitStrings) :
             d[1][1] # d[2][1]}

InitUnits ==
    /\ cu \in {[pc |-> "call", ds |-> ds, variables_and_units |-> r] :
                 ds \in UNION {[V -> UnitStrings] : V \in SUBSET VariableNames},
                 r \in UnitDicts}
    /\ mc = Idle /\ stk = Idle /\ cl = Idle /\ ud = Idle /\ cv = Idle /\ tc = Idle /\ ns = Idle /\ se = Idle

CallChangeUnits ==
    /\ cu.pc = "call"
    /\ LET r == change_units(cu.ds, cu.variables_and_units)
       IN  cu' = [pc |-> r.pc, ds |-> cu.ds, variables_and_units |-> cu.variables_and_units,
                  out |-> r.ds, log |-> r.log]
    /\ UNCHANGED <<mc, stk, cl, ud, cv, tc, ns, se>>

NextUnits == CallChangeUnits

SpecUnits == InitUnits /\ [][NextUnits]_vars

\* The exponent of time in each unit string, 0 when the unit has no time dimension.
C4_TimeExponent(u) ==
    CASE u \in {"mm", "K", "degC"} -> 0
      [] u \in {"mm/d", "mm d-1"} -> -1
      [] u = "m s-2" -> -2
      [] u = "s" -> 1

C4_SameUnit(u, w) == u = w \/ {u, w} = {"mm/d", "mm d-1"}

\* The requested variables that are in the dataset in another unit than the one asked.
C4_ToConvert ==
    SelectSeq(cu.variables_and_units,
              LAMBDA e : e[1] \in DOMAIN cu.ds /\ ~C4_SameUnit(cu.ds[e[1]], e[2]))

\* C4: each requested variable that is present in another unit is converted by the
\* kind its d = (time exponent of source) - (time exponent of target) selects, units
\* without a time dimension counting as exponent 0: 0 direct, 1 amount-to-rate, -1
\* rate-to-amount, anything else NotImplementedError naming the two units, which ends
\* the call.  Variables absent or already in the requested unit keep their unit.
C4_ConversionKind ==
    cu.pc \in {"done", "error"} =>
        LET todo == C4_ToConvert
            d(e) == C4_TimeExponent(cu.ds[e[1]]) - C4_TimeExponent(e[2])
            kind(e) == CASE d(e) = 0 -> "convert_units_to"
                         [] d(e) = 1 -> "amount2rate"
                         [] d(e) = -1 -> "rate2amount"
                         [] OTHER -> "NotImplementedError"
            bad == {i \in DOMAIN todo : kind(todo[i]) = "NotImplementedError"}
        IN  /\ cu.pc = "error" <=> bad # {}
            /\ Len(cu.log) <= Len(todo)
            /\ cu.pc = "done" => Len(cu.log) = Len(todo)
            /\ cu.pc = "error" => /\ Len(cu.log) \in bad
                                  /\ \A i \in bad : Len(cu.log) <= i
            /\ \A i \in DOMAIN cu.log :
                 cu.log[i] = [var |-> todo[i][1], from |-> cu.ds[todo[i][1]],
                              to |-> todo[i][2], kind |-> kind(todo[i])]
            /\ DOMAIN cu.out = DOMAIN cu.ds
            /\ \A v \in DOMAIN cu.ds :
                 cu.out[v] = IF \E i \in DOMAIN cu.log :
                                  cu.log[i].var = v /\ cu.log[i].kind # "NotImplementedError"
                             THEN (CHOOSE e \in Range(cu.variables_and_units) : e[1] = v)[2]
                             ELSE cu.ds[v]

\* An amount without a time dimension ("mm") asked as a rate ("mm/d"), next to a
\* variable already in the requested unit under another spelling.
C4_Witness ==
    /\ cu.pc = "done"
    /\ cu.ds = [v \in {"pr", "tas"} |-> IF v = "pr" THEN "mm" ELSE "K"]
    /\ cu.variables_and_units = <<<<"pr", "mm/d">>, <<"tas", "K">>>>
    /\ cu.log = <<[var |-> "pr", from |-> "mm", to |-> "mm/d", kind |-> "amount2rate"]>>
    /\ cu.out["pr"] = "mm/d"

C4_WitnessError ==
    /\ cu.pc = "error"
    /\ Len(cu.log) = 2
    /\ cu.log[1].kind = "rate2amount"
    /\ cu.log[2].kind = "NotImplementedError"

(***************************************************************************)
(* Ordered dicts: a Python dict is the sequence of its <<key, value>>      *)
(* items in insertion order, no key twice.                                 *)
(***************************************************************************)
DictKeys(d) == [i \in DOMAIN d |-> d[i][1]]

DictHas(d, k) == \E i \in DOMAIN d : d[i][1] = k

DictGet(d, k) == d[CHOOSE i \in DOMAIN d : d[i][1] = k][2]

\* d[k] = v: a key already there keeps its place.
DictSet(d, k, v) ==
    IF DictHas(d, k)
    THEN [i \in DOMAIN d |-> IF d[i][1] = k THEN <<k, v>> ELSE d[i]]
    ELSE Append(d, <<k, v>>)

\* del d[k], for a key that is there.
DictDel(d, k) == SelectSeq(d, LAMBDA e : e[1] # k)

\* dict(items): later items overwrite earlier ones with the same key.
RECURSIVE DictFromItems(_)
DictFromItems(items) ==
    IF items = <<>> THEN <<>>
    ELSE LET n == Len(items)
         IN  DictSet(DictFromItems(SubSeq(items, 1, n - 1)), items[n][1], items[n][2])

(***************************************************************************)
(* unstack_dates                                                           *)
(*                                                                         *)
(* The time coordinate is a sequence of dates [year, month, day].  A label *)
(* is the tuple of the pieces it is joined from.  A "MM-DD" key is the     *)
(* tuple of its four digits, compared as strings are: digit by digit.      *)
(***************************************************************************)
\* Most dates in a time coordinate.
MaxPeriods == 4

\* The fewest dates infer_freq accepts.
MinPeriods == 3

StartYear == 2000

\* A regular series of n month starts, every `step` months from month `start`.
DateRange(start, step, n) ==
    [i \in 1..n |->
        LET total == (start - 1) + (i - 1) * step
        IN  [year |-> StartYear + (total \div 12), month |-> (total % 12) + 1, day |-> 1]]

\* f"{m:02d}-{d:02d}" and strftime("%m-%d").
MonthDay(m, d) == <<m \div 10, m % 10, d \div 10, d % 10>>

\* a < b for two keys, as Python compares strings.
KeyLess(a, b) ==
    \E i \in 1..4 : a[i] < b[i] /\ \A j \in 1..(i - 1) : a[j] = b[j]

Initials == <<"J", "F", "M", "A", "M", "J", "J", "A", "S", "O", "N", "D">>

MONTH_ABBREVIATIONS ==
    <<"JAN", "FEB", "MAR", "APR", "MAY", "JUN", "JUL", "AUG", "SEP", "OCT", "NOV", "DEC">>

\* No frequency could be inferred (infer_freq returns None).
NoFreq == [mult |-> 0, base |-> "None"]

\* xr.infer_freq then parse_offset: the multiplier and base of a regular series of
\* month starts.
InferFreq(time) ==
    IF Len(time) < MinPeriods \/ \E i \in DOMAIN time : time[i].day # 1 THEN NoFreq
    ELSE LET months(i) == 12 * time[i].year + time[i].month
             step == months(2) - months(1)
         IN  IF step <= 0 \/ \E i \in 2..Len(time) : months(i) - months(i - 1) # step
             THEN NoFreq
             ELSE IF step % 12 = 0 THEN [mult |-> step \div 12, base |-> "A"]
             ELSE IF step % 3 = 0 THEN [mult |-> step \div 3, base |-> "Q"]
             ELSE [mult |-> step, base |-> "M"]

\* np.unique(ds.time.dt.month)
UniqueMonths(time) == SortedSeq({time[i].month : i \in DOMAIN time})

\* A map whose labels start one month late.
InferSeasonsLate(time, freq) ==
    IF freq.base = "Q" \/ (freq.base = "M" /\ freq.mult > 1)
    THEN LET n == freq.mult * (IF freq.base = "Q" THEN 3 ELSE 1)
             ms == UniqueMonths(time)
         IN  [i \in DOMAIN ms |->
                <<MonthDay(ms[i], 1),
                  [j \in 1..n |-> Initials[((ms[i] + j - 1) % 12) + 1]]>>]
    ELSE IF freq.base \in {"A", "Y"}
    THEN DictSet([m \in 1..12 |-> <<MonthDay(m, 1), <<"annual-", MONTH_ABBREVIATIONS[m]>>>>],
                 MonthDay(1, 1), <<"annual">>)
    ELSE [m \in 1..12 |-> <<MonthDay(m, 1), <<MONTH_ABBREVIATIONS[m]>>>>]

\* The season map built when `seasons` is None.
InferSeasons(time, freq) ==
    IF freq.base = "Q" \/ (freq.base = "M" /\ freq.mult > 1)
    THEN LET n == freq.mult * (IF freq.base = "Q" THEN 3 ELSE 1)
             ms == UniqueMonths(time)
         IN  [i \in DOMAIN ms |->
                <<MonthDay(ms[i], 1),
                  [j \in 1..n |-> Initials[((ms[i] - 1 + j - 1) % 12) + 1]]>>]
    ELSE IF freq.base \in {"A", "Y"}
    THEN DictSet([m \in 1..12 |-> <<MonthDay(m, 1), <<"annual-", MONTH_ABBREVIATIONS[m]>>>>],
                 MonthDay(1, 1), <<"annual">>)
    ELSE [m \in 1..12 |-> <<MonthDay(m, 1), <<MONTH_ABBREVIATIONS[m]>>>>]

\* inverted = dict(zip(seasons.values(), seasons.keys()))
InvertedFirst(seasons) ==
    DictFromItems([i \in DOMAIN seasons |->
                     <<seasons[Len(seasons) + 1 - i][2], seasons[Len(seasons) + 1 - i][1]>>])

Inverted(seasons) == DictFromItems([i \in DOMAIN seasons |-> <<seasons[i][2], seasons[i][1]>>])

\* ds.sortby(keys): the labels in ascending order of their key in `inverted`.
SortBy(labels, inverted) ==
    CHOOSE s \in [1..Cardinality(labels) -> labels] :
        \A a, b \in 1..Cardinality(labels) :
            a < b => KeyLess(DictGet(inverted, s[a]), DictGet(inverted, s[b]))

unstack_dates(time, seasons_arg) ==
    LET freq == InferFreq(time)
    IN  IF ~seasons_arg.given /\ freq.base \notin {"A", "Q", "M", "Y"}
        THEN [pc |-> "error", error |-> "ValueError"]
        ELSE
        LET seasons == IF seasons_arg.given THEN seasons_arg.map ELSE InferSeasons(time, freq)
            key(i) == MonthDay(time[i].month, time[i].day)
        IN  IF \E i \in DOMAIN time : ~DictHas(seasons, key(i))
            THEN [pc |-> "error", error |-> "KeyError"]
            ELSE
            LET seas == [i \in DOMAIN time |-> DictGet(seasons, key(i))]
            IN  IF \E i, j \in DOMAIN time :
                      i # j /\ time[i].year = time[j].year /\ seas[i] = seas[j]
                THEN [pc |-> "error", error |-> "ValueError"]
                ELSE [pc |-> "done",
                      seasons |-> seasons,
                      time |-> SortedSeq({time[i].year : i \in DOMAIN time}),
                      season |-> SortBy(Range(seas), Inverted(seasons))]

\* Explicit season maps: two keys to one label (in two insertion orders), one label
\* per key, and one label for consecutive months.
ExplicitSeasons ==
    { << <<MonthDay(1, 1), <<"wet">>>>, <<MonthDay(7, 1), <<"dry">>>>,
         <<MonthDay(12, 1), <<"wet">>>> >>,
      << <<MonthDay(12, 1), <<"wet">>>>, <<MonthDay(7, 1), <<"dry">>>>,
         <<MonthDay(1, 1), <<"wet">>>> >>,
      << <<MonthDay(12, 1), <<"winter">>>>, <<MonthDay(3, 1), <<"spring">>>>,
         <<MonthDay(6, 1), <<"summer">>>>, <<MonthDay(9, 1), <<"fall">>>> >>,
      << <<MonthDay(1, 1), <<"early">>>>, <<MonthDay(2, 1), <<"early">>>>,
         <<MonthDay(3, 1), <<"early">>>>, <<MonthDay(4, 1), <<"late">>>> >> }

\* Months between two dates of the series.
Steps == {1, 2, 3, 4, 6, 12}

InitDates ==
    /\ ud \in {[pc |-> "call", time |-> DateRange(start, step, n), seasons |-> sm] :
                 start \in 1..12, step \in Steps, n \in 2..MaxPeriods,
                 sm \in {[given |-> FALSE, map |-> <<>>]}
                          \cup {[given |-> TRUE, map |-> e] : e \in ExplicitSeasons}}
    /\ mc = Idle /\ stk = Idle /\ cu = Idle /\ cl = Idle /\ cv = Idle /\ tc = Idle /\ ns = Idle /\ se = Idle

CallUnstackDates ==
    /\ ud.pc = "call"
    /\ LET r == unstack_dates(ud.time, ud.seasons)
       IN  ud' = [pc |-> r.pc, arg |-> [time |-> ud.time, seasons |-> ud.seasons], out |-> r]
    /\ UNCHANGED <<mc, stk, cu, cl, cv, tc, ns, se>>

NextDates == CallUnstackDates

SpecDates == InitDates /\ [][NextDates]_vars

\* The last key of the map, in the map's own order, that maps to label l.
C5_LastKey(seasons, l) ==
    seasons[CHOOSE i \in DOMAIN seasons :
               seasons[i][2] = l /\ \A j \in (i + 1)..Len(seasons) : seasons[j][2] # l][1]

\* The smallest (earliest in the year) key of the map that maps to label l.
C5_FirstKey(seasons, l) ==
    seasons[CHOOSE i \in DOMAIN seasons :
               /\ seasons[i][2] = l
               /\ \A j \in DOMAIN seasons :
                    (j # i /\ seasons[j][2] = l) => KeyLess(seasons[i][1], seasons[j][1])][1]

C5_QuarterlyDecember ==
    /\ ~ud.arg.seasons.given
    /\ \A i \in DOMAIN ud.arg.time : ud.arg.time[i].month \in {12, 3, 6, 9}
    /\ {ud.arg.time[i].month : i \in DOMAIN ud.arg.time} = {12, 3, 6, 9}
    /\ Len(ud.arg.time) = 4

C5_WitnessExplicit ==
    /\ ud.pc = "done"
    /\ ud.arg.seasons.given
    /\ ud.out.season = << <<"dry">>, <<"wet">> >>
    /\ DictGet(ud.out.seasons, MonthDay(1, 1)) = <<"wet">>
    /\ ud.arg.time[1].month = 1

C15_Step ==
    12 * (ud.arg.time[2].year - ud.arg.time[1].year)
        + (ud.arg.time[2].month - ud.arg.time[1].month)

\* The seasons are inferred from a series of at least three month starts, evenly spaced
\* by more than one month and not by whole years: quarterly, or monthly with a multiplier.
C15_Inferred ==
    /\ ud.pc \in {"done", "error"}
    /\ ~ud.arg.seasons.given
    /\ Len(ud.arg.time) >= 3
    /\ C15_Step > 1
    /\ C15_Step % 12 # 0

\* The initials of the year, twice over.
C15_TwoYears == <<"J", "F", "M", "A", "M", "J", "J", "A", "S", "O", "N", "D",
                  "J", "F", "M", "A", "M", "J", "J", "A", "S", "O", "N", "D">>

\* C15: the inferred season map of a quarterly series, or a monthly one with a
\* multiplier above 1, has exactly one key "mm-01" per month m of the time coordinate,
\* mapped to the initials of the N consecutive months from m on, past December into
\* January, N being the months between two dates (the multiplier, times 3 when
\* quarterly); a quarterly series anchored in December gets DJF, MAM, JJA and SON.
C15_InferredMap ==
    C15_Inferred =>
        /\ ud.pc = "done"
        /\ LET seasons == ud.out.seasons
                months == {ud.arg.time[i].month : i \in DOMAIN ud.arg.time}
            IN  /\ {seasons[i][1] : i \in DOMAIN seasons}
                      = {<<m \div 10, m % 10, 0, 1>> : m \in months}
                /\ Len(seasons) = Cardinality(months)
                /\ \A i \in DOMAIN seasons :
                      \A m \in months :
                         seasons[i][1] = <<m \div 10, m % 10, 0, 1>> =>
                            seasons[i][2] = SubSeq(C15_TwoYears, m, m + C15_Step - 1)
                /\ months = {12, 3, 6, 9} =>
                      {seasons[i][2] : i \in DOMAIN seasons}
                         = {<<"D", "J", "F">>, <<"M", "A", "M">>, <<"J", "J", "A">>,
                            <<"S", "O", "N">>}

\* A series every four months from November on: NDJF, MAMJ and JASO.
C15_Witness ==
    /\ C15_Inferred
    /\ ud.pc = "done"
    /\ ud.arg.time[1].month = 11
    /\ C15_Step = 4
    /\ Len(ud.arg.time) = 3
    /\ ud.out.seasons = << <<<<0, 3, 0, 1>>, <<"M", "A", "M", "J">>>>,
                           <<<<0, 7, 0, 1>>, <<"J", "A", "S", "O">>>>,
                           <<<<1, 1, 0, 1>>, <<"N", "D", "J", "F">>>> >>

(***************************************************************************)
(* Controlled vocabularies: __read_CVs and the cvfunc it builds            *)
(*                                                                         *)
(* A Python value is a record of its type and its content; a str holds the *)
(* tuple of its characters.  A vocabulary file is the ordered dict read by *)
(* json.load.                                                              *)
(***************************************************************************)
\* Most entries of a vocabulary file, the is_regex entry aside.
MaxEntries == 2

Str(chars) == [t |-> "str", v |-> chars]

None == [t |-> "NoneType", v |-> <<>>]

Bool(b) == [t |-> "bool", v |-> <<b>>]

IS_REGEX == Str(<<"i", "s", "_", "r", "e", "g", "e", "x">>)

PASS == Str(<<"p", "a", "s", "s">>)

ERROR == Str(<<"e", "r", "r", "o", "r">>)

\* re.fullmatch(p, s) for patterns of literal characters, "." and "*".
RECURSIVE FullMatch(_, _)
FullMatch(p, s) ==
    IF p = <<>> THEN s = <<>>
    ELSE IF Len(p) >= 2 /\ p[2] = "*"
    THEN \/ FullMatch(SubSeq(p, 3, Len(p)), s)
         \/ /\ s # <<>>
            /\ p[1] \in {".", s[1]}
            /\ FullMatch(p, Tail(s))
    ELSE /\ s # <<>>
         /\ p[1] \in {".", s[1]}
         /\ FullMatch(Tail(p), Tail(s))

\* cv.pop("is_regex", False): the flag, and the mapping without the entry.
read_CVs(file) ==
    [ is_regex |-> IF DictHas(file, IS_REGEX) THEN DictGet(file, IS_REGEX).v[1] ELSE FALSE,
      cv |-> IF DictHas(file, IS_REGEX) THEN DictDel(file, IS_REGEX) ELSE file ]

\* The tail of cvfunc: what `default` makes of a key that is not mapped.
ApplyDefault(key, default) ==
    IF default.t = "str" /\ default = PASS THEN [pc |-> "done", result |-> key]
    ELSE IF default.t = "str" /\ default = ERROR THEN [pc |-> "error", result |-> key]
    ELSE [pc |-> "done", result |-> default]

cvfunc_last_match(voc, key, default) ==
    IF voc.is_regex
    THEN LET hits == {i \in DOMAIN voc.cv : key.t = "str" /\ FullMatch(voc.cv[i][1].v, key.v)}
         IN  IF hits # {}
             THEN [pc |-> "done",
                   result |-> voc.cv[CHOOSE i \in hits : \A j \in hits : j <= i][2]]
             ELSE ApplyDefault(key, default)
    ELSE IF DictHas(voc.cv, key)
         THEN [pc |-> "done", result |-> DictGet(voc.cv, key)]
         ELSE ApplyDefault(key, default)

\* cvfunc(key, default) of the vocabulary voc; "error" ends in KeyError(key).
cvfunc(voc, key, default) ==
    IF voc.is_regex
    THEN LET hits == {i \in DOMAIN voc.cv : key.t = "str" /\ FullMatch(voc.cv[i][1].v, key.v)}
         IN  IF hits # {}
             THEN [pc |-> "done",
                   result |-> voc.cv[CHOOSE i \in hits : \A j \in hits : i <= j][2]]
             ELSE ApplyDefault(key, default)
    ELSE IF DictHas(voc.cv, key)
         THEN [pc |-> "done", result |-> DictGet(voc.cv, key)]
         ELSE ApplyDefault(key, default)

\* Keys of a vocabulary file: plain names, which are also patterns, and patterns.
CVFileKeys ==
    {Str(<<"a", "b">>), Str(<<"a", ".">>), Str(<<".", "*">>), Str(<<"b">>)}

CVFileValues == {Str(<<"X">>), Str(<<"Y">>)}

CVEntries ==
    {e \in SeqsUpTo(CVFileKeys \X CVFileValues, MaxEntries) :
        \A i, j \in DOMAIN e : i # j => e[i][1] # e[j][1]}

\* The files: without an is_regex entry, or with one (true or false) at the top.
CVFiles ==
    CVEntries \cup {<<<<IS_REGEX, Bool(b)>>>> \o e : b \in BOOLEAN, e \in CVEntries}

CVKeys == {Str(<<"a", "b">>), Str(<<"a", "a">>), Str(<<"a", ".">>), Str(<<"b">>), IS_REGEX, None}

CVDefaults == {ERROR, PASS, Str(<<"?">>), None}

InitCV ==
    /\ cv \in {[pc |-> "call", file |-> f, key |-> k, default |-> d] :
                 f \in CVFiles, k \in CVKeys, d \in CVDefaults}
    /\ mc = Idle /\ stk = Idle /\ cu = Idle /\ cl = Idle /\ ud = Idle /\ tc = Idle /\ ns = Idle /\ se = Idle

CallCvfunc ==
    /\ cv.pc = "call"
    /\ LET r == cvfunc(read_CVs(cv.file), cv.key, cv.default)
       IN  cv' = [pc |-> r.pc, file |-> cv.file, key |-> cv.key, default |-> cv.default,
                  result |-> r.result]
    /\ UNCHANGED <<mc, stk, cu, cl, ud, tc, ns, se>>

NextCV == CallCvfunc

SpecCV == InitCV /\ [][NextCV]_vars

C9_IsRegex == \E i \in DOMAIN cv.file : cv.file[i] = <<IS_REGEX, Bool(TRUE)>>

\* The entries of the file that map the key: equal to it, or, in regex mode, matching it.
C9_Mapping ==
    {i \in DOMAIN cv.file :
        /\ cv.file[i][1] # IS_REGEX
        /\ IF C9_IsRegex
           THEN cv.key.t = "str" /\ FullMatch(cv.file[i][1].v, cv.key.v)
           ELSE cv.file[i][1] = cv.key}

\* C9: a mapped key gives the mapped value (in regex mode that of the first matching
\* pattern in file order) whatever the default; an unmapped key raises KeyError(key)
\* under "error", comes back unchanged under "pass", and gives the default otherwise.
\* The is_regex entry is never one of the mapping's entries.
C9_Lookup ==
    cv.pc \in {"done", "error"} =>
        IF C9_Mapping # {}
        THEN /\ cv.pc = "done"
             /\ cv.result = cv.file[CHOOSE i \in C9_Mapping : \A j \in C9_Mapping : i <= j][2]
        ELSE /\ cv.default = ERROR => cv.pc = "error" /\ cv.result = cv.key
             /\ cv.default = PASS => cv.pc = "done" /\ cv.result = cv.key
             /\ cv.default \notin {ERROR, PASS} => cv.pc = "done" /\ cv.result = cv.default

\* Two patterns match the key; the first in file order answers, despite default "error".
C9_Witness ==
    /\ cv.pc = "done"
    /\ C9_IsRegex
    /\ Cardinality(C9_Mapping) = 2
    /\ cv.file[2][2] # cv.file[3][2]
    /\ cv.result = cv.file[2][2]
    /\ cv.default = ERROR

C9_WitnessReserved ==
    /\ cv.pc = "error"
    /\ cv.key = IS_REGEX
    /\ ~C9_IsRegex
    /\ DictHas(cv.file, IS_REGEX)

(***************************************************************************)
(* clean_up                                                                *)
(*                                                                         *)
(* Attribute names and patterns are tuples of characters, attribute values *)
(* tuples of words.  A dataset is the record of its global attributes, its *)
(* variables' attributes (ordered dicts) and, for the stages that work on  *)
(* the data, the unit of each variable, the calendar, whether the dataset  *)
(* is stacked and the decimals each variable is rounded to.                *)
(***************************************************************************)
\* Most patterns in a list of attrs_to_remove or remove_all_attrs_except.
MaxPatterns == 2

\* Most datasets in common_attrs_only.
MaxOthers == 2

CAT == <<"c", "a", "t", ":">>

CAT_ID == <<"c", "a", "t", ":", "i", "d">>

CAT_DATE_START == <<"c", "a", "t", ":", "d", "a", "t", "e", "_", "s", "t", "a", "r", "t">>

CAT_DATE_END == <<"c", "a", "t", ":", "d", "a", "t", "e", "_", "e", "n", "d">>

CAT_PROCESSING_LEVEL == <<"c", "a", "t", ":", "p", "r", "o", "c", "e", "s", "s", "i", "n", "g", "_", "l", "e", "v", "e", "l">>

CAT_TYPE == <<"c", "a", "t", ":", "t", "y", "p", "e">>

TITLE == <<"t", "i", "t", "l", "e">>

HISTORY == <<"h", "i", "s", "t", "o", "r", "y">>

HAS_CELL == <<"h", "a", "s", "_", "c", "e", "l", "l">>

UNITS == <<"u", "n", "i", "t", "s">>

\* x in b, for two strings.
IsSubstring(x, b) ==
    \E i \in 0..(Len(b) - Len(x)) : SubSeq(b, i + 1, i + Len(x)) = x

\* b.startswith(x)
StartsWith(b, x) == Len(x) <= Len(b) /\ SubSeq(b, 1, Len(x)) = x

\* s.replace(old, new): every occurrence, left to right, without overlap.
RECURSIVE Replace(_, _, _)
Replace(s, old, new) ==
    IF Len(s) < Len(old) THEN s
    ELSE IF StartsWith(s, old)
    THEN new \o Replace(SubSeq(s, Len(old) + 1, Len(s)), old, new)
    ELSE <<s[1]>> \o Replace(Tail(s), old, new)

\* A search that looks at the leading "^" before the trailing "*".
_search_caret_first(a, b) ==
    IF a[1] = "^" THEN StartsWith(b, SubSeq(a, 2, Len(a)))
    ELSE IF a[Len(a)] = "*" THEN IsSubstring(SubSeq(a, 1, Len(a) - 1), b)
    ELSE a = b

_search(a, b) ==
    IF a[Len(a)] = "*" THEN IsSubstring(SubSeq(a, 1, Len(a) - 1), b)
    ELSE IF a[1] = "^" THEN StartsWith(b, SubSeq(a, 2, Len(a)))
    ELSE a = b

\* obj.attrs for obj = ds if var == "global" else ds[var]
AttrsOf(ds, var) == IF var = "global" THEN ds.attrs ELSE ds.vattrs[var]

WithAttrs(ds, var, attrs) ==
    IF var = "global" THEN [ds EXCEPT !.attrs = attrs]
    ELSE [ds EXCEPT !.vattrs[var] = attrs]

\* generate_id(ds).iloc[0]: the identifier built from the catalog attributes the
\* dataset holds (the words of their values, in order).
RECURSIVE generate_id(_)
generate_id(attrs) ==
    IF attrs = <<>> THEN <<"id">>
    ELSE LET n == Len(attrs)
             rest == generate_id(SubSeq(attrs, 1, n - 1))
         IN  IF StartsWith(attrs[n][1], CAT) /\ attrs[n][1] # CAT_ID
             THEN rest \o attrs[n][2]
             ELSE rest

\* A reduction that lets the two dates through.
CommonWithKeepDates(attrs, other) ==
    SelectSeq(attrs, LAMBDA e : DictHas(other, e[1]) /\ e[2] = DictGet(other, e[1]))

\* Lines 596-603 for one other dataset: drop what it lacks or holds with another
\* value, and the two dates.
CommonWith(attrs, other) ==
    SelectSeq(attrs, LAMBDA e :
        ~( \/ ~DictHas(other, e[1])
           \/ e[1] \in {CAT_DATE_START, CAT_DATE_END}
           \/ e[2] # DictGet(other, e[1]) ))

\* The loop over common_attrs_only, then the new id.
RECURSIVE CommonAttrsLoop(_, _, _)
CommonAttrsLoop(attrs, others, i) ==
    IF i > Len(others) THEN attrs
    ELSE CommonAttrsLoop(CommonWith(attrs, others[i]), others, i + 1)

CommonAttrsOnly(attrs, others) ==
    LET reduced == CommonAttrsLoop(attrs, others, 1)
    IN  DictSet(reduced, CAT_ID, generate_id(reduced))

\* Lines 616-618 for one attribute: every pattern that matches deletes it; a second
\* match finds it gone and the del raises KeyError.
RECURSIVE RemoveAttr(_, _, _, _)
RemoveAttr(attrs, ds_attr, list_of_attrs, j) ==
    IF j > Len(list_of_attrs) THEN [ok |-> TRUE, attrs |-> attrs]
    ELSE IF _search(list_of_attrs[j], ds_attr)
    THEN IF DictHas(attrs, ds_attr)
         THEN RemoveAttr(DictDel(attrs, ds_attr), ds_attr, list_of_attrs, j + 1)
         ELSE [ok |-> FALSE, attrs |-> attrs]
    ELSE RemoveAttr(attrs, ds_attr, list_of_attrs, j + 1)

\* Line 615: the loop over the attributes the object had when the loop began.
RECURSIVE RemoveAttrs(_, _, _, _)
RemoveAttrs(attrs, keys, i, list_of_attrs) ==
    IF i > Len(keys) THEN [ok |-> TRUE, attrs |-> attrs]
    ELSE LET r == RemoveAttr(attrs, keys[i], list_of_attrs, 1)
         IN  IF r.ok THEN RemoveAttrs(r.attrs, keys, i + 1, list_of_attrs) ELSE r

\* A filter that keeps what no pattern matches.
KeepOnlyInverted(attrs, list_of_attrs) ==
    SelectSeq(attrs, LAMBDA e :
        ~\E j \in DOMAIN list_of_attrs : _search(list_of_attrs[j], e[1]))

\* Lines 624-632: delete every attribute no pattern matches.
KeepOnly(attrs, list_of_attrs) ==
    SelectSeq(attrs, LAMBDA e :
        \E j \in DOMAIN list_of_attrs : _search(list_of_attrs[j], e[1]))

\* Lines 637-638: obj.attrs[attrname] = attrtmpl for each item.
RECURSIVE AddAttrs(_, _, _)
AddAttrs(attrs, new, i) ==
    IF i > Len(new) THEN attrs
    ELSE AddAttrs(DictSet(attrs, new[i][1], new[i][2]), new, i + 1)

\* Lines 641-644: each key the dataset had is popped and set again under its new name.
RECURSIVE ChangePrefix(_, _, _, _)
ChangePrefix(attrs, keys, i, prefix) ==
    IF i > Len(keys) THEN attrs
    ELSE LET new_name == Replace(keys[i], CAT, prefix)
         IN  IF new_name # <<>>
             THEN ChangePrefix(DictSet(DictDel(attrs, keys[i]), new_name, DictGet(attrs, keys[i])),
                               keys, i + 1, prefix)
             ELSE ChangePrefix(attrs, keys, i + 1, prefix)

\* The unit of each variable that has a units attribute.
UnitsOf(ds) ==
    [v \in {w \in DOMAIN ds.vattrs : DictHas(ds.vattrs[w], UNITS)} |->
        DictGet(ds.vattrs[v], UNITS)[1]]

\* Lines 525-527: change_units on the dataset.
UnitsStage(ds, cfg) ==
    LET r == change_units(UnitsOf(ds), cfg.variables_and_units)
        after == [ds EXCEPT !.vattrs =
                     [v \in DOMAIN ds.vattrs |->
                         IF v \in DOMAIN r.ds
                         THEN DictSet(ds.vattrs[v], UNITS, <<r.ds[v]>>)
                         ELSE ds.vattrs[v]]]
    IN  IF \E i \in DOMAIN cfg.variables_and_units :
              /\ cfg.variables_and_units[i][1] \in DOMAIN ds.vattrs
              /\ cfg.variables_and_units[i][1] \notin DOMAIN UnitsOf(ds)
        THEN [ok |-> FALSE, ds |-> ds, error |-> "KeyError"]
        ELSE [ok |-> r.pc = "done", ds |-> after,
              error |-> IF r.pc = "done" THEN "" ELSE "NotImplementedError"]

\* Lines 530-564: the calendar becomes the target; missing_by_var must name every
\* variable, and then says how each variable's new dates are filled.
CalendarStage(ds, cfg) ==
    IF cfg.missing_by_var # <<>>
       /\ \E v \in DOMAIN ds.vattrs : ~DictHas(cfg.missing_by_var, v)
    THEN [ok |-> FALSE, ds |-> ds, error |-> "ValueError"]
    ELSE [ok |-> TRUE,
          ds |-> [ds EXCEPT !.calendar = DictGet(cfg.convert_calendar_kwargs, "target"),
                            !.filled = cfg.missing_by_var],
          error |-> ""]

\* Lines 567-568 and maybe_unstack.
UnstackStage(ds, cfg) ==
    [ok |-> TRUE,
     ds |-> IF DictHas(cfg.maybe_unstack_dict, "stack_drop_nans")
               /\ DictGet(cfg.maybe_unstack_dict, "stack_drop_nans")
            THEN [ds EXCEPT !.stacked = FALSE]
            ELSE ds,
     error |-> ""]

\* Lines 570-572.
RoundStage(ds, cfg) ==
    IF \E i \in DOMAIN cfg.round_var : cfg.round_var[i][1] \notin DOMAIN ds.vattrs
    THEN [ok |-> FALSE, ds |-> ds, error |-> "KeyError"]
    ELSE [ok |-> TRUE,
          ds |-> [ds EXCEPT !.decimals =
                     [v \in DOMAIN ds.decimals |->
                         IF DictHas(cfg.round_var, v)
                         THEN <<DictGet(cfg.round_var, v)>>
                         ELSE ds.decimals[v]]],
          error |-> ""]

\* Lines 582-606.
CommonStage(ds, cfg) ==
    [ok |-> TRUE, ds |-> [ds EXCEPT !.attrs = CommonAttrsOnly(ds.attrs, cfg.common_attrs_only)],
     error |-> ""]

\* Lines 608-609.
LevelStage(ds, cfg) ==
    [ok |-> TRUE, ds |-> [ds EXCEPT !.attrs = DictSet(ds.attrs, CAT_PROCESSING_LEVEL, cfg.to_level)],
     error |-> ""]

\* Lines 612-618: the loop over the items of attrs_to_remove.
RECURSIVE RemoveStageFrom(_, _, _)
RemoveStageFrom(ds, attrs_to_remove, i) ==
    IF i > Len(attrs_to_remove) THEN [ok |-> TRUE, ds |-> ds, error |-> ""]
    ELSE LET var == attrs_to_remove[i][1]
         IN  IF var # "global" /\ var \notin DOMAIN ds.vattrs
             THEN [ok |-> FALSE, ds |-> ds, error |-> "KeyError"]
             ELSE LET r == RemoveAttrs(AttrsOf(ds, var), DictKeys(AttrsOf(ds, var)), 1,
                                       attrs_to_remove[i][2])
                  IN  IF r.ok
                      THEN RemoveStageFrom(WithAttrs(ds, var, r.attrs), attrs_to_remove, i + 1)
                      ELSE [ok |-> FALSE, ds |-> WithAttrs(ds, var, r.attrs),
                            error |-> "KeyError"]

RemoveStage(ds, cfg) == RemoveStageFrom(ds, cfg.attrs_to_remove, 1)

\* Lines 621-632: the loop over the items of remove_all_attrs_except.
RECURSIVE ExceptStageFrom(_, _, _)
ExceptStageFrom(ds, remove_all_attrs_except, i) ==
    IF i > Len(remove_all_attrs_except) THEN [ok |-> TRUE, ds |-> ds, error |-> ""]
    ELSE LET var == remove_all_attrs_except[i][1]
         IN  IF var # "global" /\ var \notin DOMAIN ds.vattrs
             THEN [ok |-> FALSE, ds |-> ds, error |-> "KeyError"]
             ELSE ExceptStageFrom(
                      WithAttrs(ds, var, KeepOnly(AttrsOf(ds, var), remove_all_attrs_except[i][2])),
                      remove_all_attrs_except, i + 1)

ExceptStage(ds, cfg) == ExceptStageFrom(ds, cfg.remove_all_attrs_except, 1)

\* Lines 634-638: the loop over the items of add_attrs.
RECURSIVE AddStageFrom(_, _, _)
AddStageFrom(ds, add_attrs, i) ==
    IF i > Len(add_attrs) THEN [ok |-> TRUE, ds |-> ds, error |-> ""]
    ELSE LET var == add_attrs[i][1]
         IN  IF var # "global" /\ var \notin DOMAIN ds.vattrs
             THEN [ok |-> FALSE, ds |-> ds, error |-> "KeyError"]
             ELSE AddStageFrom(WithAttrs(ds, var, AddAttrs(AttrsOf(ds, var), add_attrs[i][2], 1)),
                               add_attrs, i + 1)

AddStage(ds, cfg) == AddStageFrom(ds, cfg.add_attrs, 1)

\* Lines 640-644.
PrefixStage(ds, cfg) ==
    [ok |-> TRUE,
     ds |-> [ds EXCEPT !.attrs = ChangePrefix(ds.attrs, DictKeys(ds.attrs), 1, cfg.change_attr_prefix)],
     error |-> ""]

\* An order in which add_attrs runs before the level and the removals.
StageOrderAddFirst ==
    <<"units", "calendar", "unstack", "round", "common", "add", "level", "remove",
      "except", "prefix">>

\* The stages of clean_up, in the order of its statements.
StageOrder ==
    <<"units", "calendar", "unstack", "round", "common", "level", "remove", "except",
      "add", "prefix">>

\* The argument that switches a stage on, when it is neither None nor empty.
StageArg(stage, cfg) ==
    CASE stage = "units"    -> cfg.variables_and_units
      [] stage = "calendar" -> cfg.convert_calendar_kwargs
      [] stage = "unstack"  -> cfg.maybe_unstack_dict
      [] stage = "round"    -> cfg.round_var
      [] stage = "common"   -> cfg.common_attrs_only
      [] stage = "level"    -> cfg.to_level
      [] stage = "remove"   -> cfg.attrs_to_remove
      [] stage = "except"   -> cfg.remove_all_attrs_except
      [] stage = "add"      -> cfg.add_attrs
      [] stage = "prefix"   -> cfg.change_attr_prefix

Stage(stage, ds, cfg) ==
    CASE stage = "units"    -> UnitsStage(ds, cfg)
      [] stage = "calendar" -> CalendarStage(ds, cfg)
      [] stage = "unstack"  -> UnstackStage(ds, cfg)
      [] stage = "round"    -> RoundStage(ds, cfg)
      [] stage = "common"   -> CommonStage(ds, cfg)
      [] stage = "level"    -> LevelStage(ds, cfg)
      [] stage = "remove"   -> RemoveStage(ds, cfg)
      [] stage = "except"   -> ExceptStage(ds, cfg)
      [] stage = "add"      -> AddStage(ds, cfg)
      [] stage = "prefix"   -> PrefixStage(ds, cfg)

\* clean_up from its i-th stage on.  trace lists the stages entered, each with the
\* dataset before and after it; an exception ends the call.
RECURSIVE RunStages(_, _, _, _)
RunStages(ds, cfg, i, trace) ==
    IF i > Len(StageOrder) THEN [pc |-> "done", ds |-> ds, trace |-> trace, error |-> ""]
    ELSE IF StageArg(StageOrder[i], cfg) = <<>> THEN RunStages(ds, cfg, i + 1, trace)
    ELSE LET r == Stage(StageOrder[i], ds, cfg)
             t == Append(trace, [stage |-> StageOrder[i], before |-> ds, after |-> r.ds,
                                 ok |-> r.ok])
         IN  IF r.ok THEN RunStages(r.ds, cfg, i + 1, t)
             ELSE [pc |-> "error", ds |-> r.ds, trace |-> t, error |-> r.error]

clean_up(ds, cfg) == RunStages(ds, cfg, 1, <<>>)

CAT_DOMAIN == <<"c", "a", "t", ":", "d", "o", "m", "a", "i", "n">>

DOG == <<"d", "o", "g", ":">>

\* Every dict made of some of the items of d, in d's order.
SubDicts(d) ==
    {SelectSeq(d, LAMBDA e : e[1] \in K) : K \in SUBSET Range(DictKeys(d))}

BaseAttrs ==
    << <<CAT_ID, <<"id0">>>>, <<CAT_DATE_START, <<"1950">>>>, <<CAT_DATE_END, <<"2000">>>>,
       <<CAT_TYPE, <<"sim">>>>, <<TITLE, <<"old">>>>, <<HISTORY, <<"h">>>>,
       <<HAS_CELL, <<"c">>>> >>

TasAttrs == << <<UNITS, <<"K">>>>, <<TITLE, <<"tas">>>>, <<HAS_CELL, <<"mean">>>> >>

\* A stacked dataset of one variable, with the given global attributes.
DatasetWith(attrs) ==
    [attrs |-> attrs,
     vattrs |-> [v \in {"tas"} |-> TasAttrs],
     calendar |-> "standard",
     filled |-> <<>>,
     stacked |-> TRUE,
     decimals |-> [v \in {"tas"} |-> <<>>]]

\* The arguments of clean_up at their defaults: every stage off.
NoConfig ==
    [variables_and_units |-> <<>>, convert_calendar_kwargs |-> <<>>, missing_by_var |-> <<>>,
     maybe_unstack_dict |-> <<>>, round_var |-> <<>>, common_attrs_only |-> <<>>,
     to_level |-> <<>>, attrs_to_remove |-> <<>>, remove_all_attrs_except |-> <<>>,
     add_attrs |-> <<>>, change_attr_prefix |-> <<>>]

OtherAttrs ==
    { BaseAttrs,
      << <<CAT_ID, <<"id1">>>>, <<CAT_DATE_START, <<"1950">>>>, <<CAT_TYPE, <<"sim">>>>,
         <<TITLE, <<"old">>>> >>,
      << <<HISTORY, <<"h">>>>, <<CAT_TYPE, <<"obs">>>>, <<CAT_ID, <<"id0">>>>,
         <<CAT_DATE_END, <<"2000">>>> >>,
      << <<TITLE, <<"other">>>>, <<HISTORY, <<"h">>>>, <<CAT_TYPE, <<"sim">>>> >> }

\* Calls with each stage off or on with one argument; the calendar stage also with a
\* missing_by_var that names every variable, and with one that does not.
PipelineConfigs ==
    { [variables_and_units |-> IF "units" \in on THEN << <<"tas", "degC">> >> ELSE <<>>,
       convert_calendar_kwargs |-> IF cal = "off" THEN <<>> ELSE << <<"target", "noleap">> >>,
       missing_by_var |-> CASE cal = "all" -> << <<"tas", "interpolate">> >>
                            [] cal = "some" -> << <<"pr", "interpolate">> >>
                            [] OTHER -> <<>>,
       maybe_unstack_dict |-> IF "unstack" \in on THEN << <<"stack_drop_nans", TRUE>> >> ELSE <<>>,
       round_var |-> IF "round" \in on THEN << <<"tas", 2>> >> ELSE <<>>,
       common_attrs_only |-> IF "common" \in on
                             THEN << << <<CAT_ID, <<"id1">>>>, <<CAT_DATE_START, <<"1950">>>>,
                                        <<CAT_TYPE, <<"sim">>>>, <<TITLE, <<"old">>>>,
                                        <<HISTORY, <<"h">>>> >> >>
                             ELSE <<>>,
       to_level |-> IF "level" \in on THEN <<"final">> ELSE <<>>,
       attrs_to_remove |-> IF "remove" \in on
                           THEN << <<"global", <<CAT_PROCESSING_LEVEL, TITLE>>>> >>
                           ELSE <<>>,
       remove_all_attrs_except |-> IF "except" \in on
                                   THEN << <<"global", <<<<"^", "c", "a", "t", ":">>, HISTORY>>>>,
                                           <<"tas", <<UNITS>>>> >>
                                   ELSE <<>>,
       add_attrs |-> IF "add" \in on
                     THEN << <<"global", << <<TITLE, <<"new">>>>, <<CAT_DOMAIN, <<"QC">>>> >> >>,
                             <<"tas", << <<TITLE, <<"air">>>> >> >> >>
                     ELSE <<>>,
       change_attr_prefix |-> IF "prefix" \in on THEN DOG ELSE <<>>] :
      on \in SUBSET (Range(StageOrder) \ {"calendar"}),
      cal \in {"off", "plain", "all", "some"} }

\* The patterns of attrs_to_remove and remove_all_attrs_except: exact, "^" prefix,
\* trailing "*" substring, and both marks.
Patterns ==
    {TITLE, <<"^", "c", "a", "t", ":">>, <<"t", "*">>, <<"c", "e", "l", "l", "*">>, <<"^", "h", "i", "s", "t">>, <<"^", "c", "a", "t", "*">>}

PatternLists == SeqsUpTo(Patterns, MaxPatterns)

\* A dict giving one list of patterns to the global scope, to a variable, or to both.
ScopedPatterns ==
    UNION { { << <<"global", l>> >>, << <<"tas", l>> >>, << <<"global", l>>, <<"tas", l>> >> } :
            l \in PatternLists }

AttrInputs ==
    SubDicts(<< <<CAT_ID, <<"id0">>>>, <<CAT_TYPE, <<"sim">>>>, <<TITLE, <<"old">>>>,
                <<HISTORY, <<"h">>>>, <<HAS_CELL, <<"c">>>> >>)

CommonInputs ==
    SubDicts(<< <<CAT_ID, <<"id0">>>>, <<CAT_DATE_START, <<"1950">>>>,
                <<CAT_DATE_END, <<"2000">>>>, <<CAT_TYPE, <<"sim">>>>, <<TITLE, <<"old">>>>,
                <<HISTORY, <<"h">>>> >>)

InitCleanUp ==
    /\ \/ \E c \in PipelineConfigs :
             cl = [pc |-> "call", ds |-> DatasetWith(BaseAttrs), cfg |-> c]
       \/ \E a \in AttrInputs, p \in ScopedPatterns :
             cl = [pc |-> "call", ds |-> DatasetWith(a),
                   cfg |-> [NoConfig EXCEPT !.attrs_to_remove = p]]
       \/ \E a \in AttrInputs, p \in ScopedPatterns :
             cl = [pc |-> "call", ds |-> DatasetWith(a),
                   cfg |-> [NoConfig EXCEPT !.remove_all_attrs_except = p]]
       \/ \E a \in CommonInputs, o \in NonEmptySeqsUpTo(OtherAttrs, MaxOthers) :
             cl = [pc |-> "call", ds |-> DatasetWith(a),
                   cfg |-> [NoConfig EXCEPT !.common_attrs_only = o]]
    /\ mc = Idle /\ stk = Idle /\ cu = Idle /\ ud = Idle /\ cv = Idle /\ tc = Idle /\ ns = Idle /\ se = Idle

CallCleanUp ==
    /\ cl.pc = "call"
    /\ LET r == clean_up(cl.ds, cl.cfg)
       IN  cl' = [pc |-> r.pc, ds |-> cl.ds, cfg |-> cl.cfg, out |-> r.ds,
                  trace |-> r.trace, error |-> r.error]
    /\ UNCHANGED <<mc, stk, cu, ud, cv, tc, ns, se>>

NextCleanUp == CallCleanUp

SpecCleanUp == InitCleanUp /\ [][NextCleanUp]_vars

\* The matching rule of the docstring: a trailing "*" asks for a substring, a leading
\* "^" for a prefix, anything else for the exact name.
Matches(pattern, name) ==
    LET n == Len(pattern)
        m == Len(name)
    IN  IF pattern[n] = "*"
        THEN \E i \in 0..(m - (n - 1)) :
                \A k \in 1..(n - 1) : name[i + k] = pattern[k]
        ELSE IF pattern[1] = "^"
        THEN n - 1 <= m /\ \A k \in 1..(n - 1) : name[k] = pattern[k + 1]
        ELSE pattern = name

MatchesAny(list, name) == \E j \in DOMAIN list : Matches(list[j], name)

\* The canonical order of the stages.
C3_Order ==
    <<"units", "calendar", "unstack", "round", "common", "level", "remove", "except",
      "add", "prefix">>

C3_Enabled == SelectSeq(C3_Order, LAMBDA st : StageArg(st, cl.cfg) # <<>>)

\* The name a global attribute goes by once the prefix stage has run, if it runs.
C3_FinalKey(k) ==
    IF cl.cfg.change_attr_prefix # <<>> THEN Replace(k, CAT, cl.cfg.change_attr_prefix) ELSE k

\* The patterns a dict of scoped pattern lists gives to the global scope.
C3_GlobalPatterns(d) == IF DictHas(d, "global") THEN DictGet(d, "global") ELSE <<>>

C3_AddedGlobal ==
    IF DictHas(cl.cfg.add_attrs, "global") THEN DictGet(cl.cfg.add_attrs, "global") ELSE <<>>

\* C3: the stages that run are the enabled ones in the order units, calendar, unstack,
\* round, common, level, remove, except, add, prefix, each starting from the dataset the
\* one before left (a failing stage ends the call); so the processing level set by
\* to_level is subject to attrs_to_remove and remove_all_attrs_except, what add_attrs
\* sets is never removed by them, and change_attr_prefix rewrites the keys add_attrs added.
C3_StageOrder ==
    cl.pc \in {"done", "error"} =>
        LET ran == [i \in DOMAIN cl.trace |-> cl.trace[i].stage]
            n == Len(cl.trace)
        IN  /\ n <= Len(C3_Enabled)
            /\ ran = SubSeq(C3_Enabled, 1, n)
            /\ cl.pc = "done" => n = Len(C3_Enabled) /\ \A i \in 1..n : cl.trace[i].ok
            /\ cl.pc = "error" => n >= 1 /\ ~cl.trace[n].ok /\ \A i \in 1..(n - 1) : cl.trace[i].ok
            /\ \A i \in 1..n :
                 cl.trace[i].before = IF i = 1 THEN cl.ds ELSE cl.trace[i - 1].after
            /\ cl.out = IF n = 0 THEN cl.ds ELSE cl.trace[n].after
            /\ (cl.pc = "done" /\ cl.cfg.to_level # <<>>
                  /\ ~DictHas(C3_AddedGlobal, CAT_PROCESSING_LEVEL)) =>
                 LET survives ==
                       /\ ~MatchesAny(C3_GlobalPatterns(cl.cfg.attrs_to_remove),
                                      CAT_PROCESSING_LEVEL)
                       /\ \/ ~DictHas(cl.cfg.remove_all_attrs_except, "global")
                          \/ MatchesAny(C3_GlobalPatterns(cl.cfg.remove_all_attrs_except),
                                        CAT_PROCESSING_LEVEL)
                 IN  /\ DictHas(cl.out.attrs, C3_FinalKey(CAT_PROCESSING_LEVEL)) <=> survives
                     /\ survives =>
                          DictGet(cl.out.attrs, C3_FinalKey(CAT_PROCESSING_LEVEL)) = cl.cfg.to_level
            /\ cl.pc = "done" =>
                 /\ \A i \in DOMAIN C3_AddedGlobal :
                      /\ DictHas(cl.out.attrs, C3_FinalKey(C3_AddedGlobal[i][1]))
                      /\ DictGet(cl.out.attrs, C3_FinalKey(C3_AddedGlobal[i][1]))
                           = C3_AddedGlobal[i][2]
                      /\ (cl.cfg.change_attr_prefix # <<>> /\ IsSubstring(CAT, C3_AddedGlobal[i][1]))
                           => ~DictHas(cl.out.attrs, C3_AddedGlobal[i][1])
                 /\ \A s \in DOMAIN cl.cfg.add_attrs :
                      cl.cfg.add_attrs[s][1] # "global" =>
                         \A i \in DOMAIN cl.cfg.add_attrs[s][2] :
                            LET a == cl.out.vattrs[cl.cfg.add_attrs[s][1]]
                                e == cl.cfg.add_attrs[s][2][i]
                            IN  DictHas(a, e[1]) /\ DictGet(a, e[1]) = e[2]

\* Every stage on: the level is set and then removed, the title is removed and then
\* added, and the added cat:domain ends as dog:domain.
C3_Witness ==
    /\ cl.pc = "done"
    /\ Len(cl.trace) = 10
    /\ ~DictHas(cl.out.attrs, CAT_PROCESSING_LEVEL)
    /\ ~DictHas(cl.out.attrs, Replace(CAT_PROCESSING_LEVEL, CAT, DOG))
    /\ DictGet(cl.out.attrs, TITLE) = <<"new">>
    /\ DictGet(cl.out.attrs, Replace(CAT_DOMAIN, CAT, DOG)) = <<"QC">>
    /\ ~DictHas(cl.out.attrs, CAT_DOMAIN)

\* The scopes a dict of scoped pattern lists names.
Scopes(d) == {d[i][1] : i \in DOMAIN d}

AllScopes == {"global", "tas"}

\* C6: the removal stage completes without error, and leaves in each scope it names
\* exactly the attributes none of the scope's patterns matches, values unchanged, and
\* the other scopes as they were.
C6_Removal ==
    cl.pc \in {"done", "error"} =>
        \A i \in DOMAIN cl.trace :
            cl.trace[i].stage = "remove" =>
                /\ cl.trace[i].ok
                /\ \A v \in AllScopes :
                     AttrsOf(cl.trace[i].after, v)
                       = IF v \in Scopes(cl.cfg.attrs_to_remove)
                         THEN SelectSeq(AttrsOf(cl.trace[i].before, v), LAMBDA e :
                                 ~MatchesAny(DictGet(cl.cfg.attrs_to_remove, v), e[1]))
                         ELSE AttrsOf(cl.trace[i].before, v)

\* C7: the remove-all-except stage leaves in each scope it names exactly the attributes
\* at least one of the scope's patterns matches, values unchanged, and the other
\* scopes as they were.
C7_KeepOnly ==
    cl.pc \in {"done", "error"} =>
        \A i \in DOMAIN cl.trace :
            cl.trace[i].stage = "except" =>
                /\ cl.trace[i].ok
                /\ \A v \in AllScopes :
                     AttrsOf(cl.trace[i].after, v)
                       = IF v \in Scopes(cl.cfg.remove_all_attrs_except)
                         THEN SelectSeq(AttrsOf(cl.trace[i].before, v), LAMBDA e :
                                 MatchesAny(DictGet(cl.cfg.remove_all_attrs_except, v), e[1]))
                         ELSE AttrsOf(cl.trace[i].before, v)

\* Two patterns, one of them matching by prefix: the cat: attributes and the title stay.
C7_Witness ==
    /\ cl.pc = "done"
    /\ Len(cl.trace) = 1
    /\ cl.trace[1].stage = "except"
    /\ cl.cfg.remove_all_attrs_except = << <<"global", <<<<"^", "c", "a", "t", ":">>, TITLE>>>> >>
    /\ Len(cl.ds.attrs) = 5
    /\ DictKeys(cl.out.attrs) = <<CAT_ID, CAT_TYPE, TITLE>>
    /\ cl.out.vattrs = cl.ds.vattrs

\* The bijections of 1..n.
Perms(n) == {f \in [1..n -> 1..n] : \A a, b \in 1..n : a # b => f[a] # f[b]}

\* C8: after the common-attributes stage the global attributes other than cat:id are
\* exactly the original ones every other dataset holds with an equal value, the two
\* dates excepted; cat:id is there and is the identifier generated from the reduced
\* dataset; and the order of the other datasets does not matter.
C8_CommonAttrs ==
    cl.pc \in {"done", "error"} =>
        \A i \in DOMAIN cl.trace :
            cl.trace[i].stage = "common" =>
                LET before == cl.trace[i].before.attrs
                    after == cl.trace[i].after.attrs
                    others == cl.cfg.common_attrs_only
                    kept == SelectSeq(before, LAMBDA e :
                               /\ e[1] \notin {CAT_DATE_START, CAT_DATE_END}
                               /\ \A o \in DOMAIN others :
                                    \E k \in DOMAIN others[o] : others[o][k] = e)
                IN  /\ cl.trace[i].ok
                    /\ SelectSeq(after, LAMBDA e : e[1] # CAT_ID)
                         = SelectSeq(kept, LAMBDA e : e[1] # CAT_ID)
                    /\ \E k \in DOMAIN after : after[k] = <<CAT_ID, generate_id(kept)>>
                    /\ cl.trace[i].after = [cl.trace[i].before EXCEPT !.attrs = after]
                    /\ \A f \in Perms(Len(others)) :
                         CommonAttrsOnly(before, [o \in DOMAIN others |-> others[f[o]]]) = after

\* Two other datasets that disagree with each other: only cat:type is common to all.
C8_Witness ==
    /\ cl.pc = "done"
    /\ Len(cl.trace) = 1
    /\ cl.trace[1].stage = "common"
    /\ Len(cl.cfg.common_attrs_only) = 2
    /\ Len(cl.ds.attrs) = 6
    /\ cl.out.attrs = << <<CAT_TYPE, <<"sim">>>>, <<CAT_ID, <<"id", "sim">>>> >>

(***************************************************************************)
(* translate_time_chunk                                                    *)
(*                                                                         *)
(* A chunks dict is an ordered dict from key to value; a value is None, an *)
(* int, a string or a dict, with its Python type in the field t.           *)
(***************************************************************************)
\* Deepest nesting of dicts inside chunks.
MaxDepth == 2

\* Largest N of the "Nyear" strings drawn in canonical decimal form.
MaxYears == 3

IntVal(n) == [t |-> "int", v |-> <<n>>]

Dict(items) == [t |-> "dict", v |-> items]

YEAR == <<"y", "e", "a", "r">>

DigitChars == <<"0", "1", "2", "3", "4", "5", "6", "7", "8", "9">>

\* s.endswith(x)
EndsWith(s, x) == Len(x) <= Len(s) /\ SubSeq(s, Len(s) - Len(x) + 1, Len(s)) = x

\* s.split(sep)[0]: the text before the first occurrence of sep (all of s without one).
SplitFirst(s, sep) ==
    IF IsSubstring(sep, s)
    THEN LET i == CHOOSE i \in 0..(Len(s) - Len(sep)) :
                    /\ SubSeq(s, i + 1, i + Len(sep)) = sep
                    /\ \A j \in 0..(i - 1) : SubSeq(s, j + 1, j + Len(sep)) # sep
         IN  SubSeq(s, 1, i)
    ELSE s

\* The value of a run of decimal digits.
RECURSIVE DigitsValue(_)
DigitsValue(s) ==
    IF s = <<>> THEN 0
    ELSE LET n == Len(s)
             d == CHOOSE d \in 0..9 : DigitChars[d + 1] = s[n]
         IN  10 * DigitsValue(SubSeq(s, 1, n - 1)) + d

\* int(s) for a string: an optional sign and at least one digit, ValueError otherwise.
ParseInt(s) ==
    LET signed == s # <<>> /\ s[1] \in {"+", "-"}
        digits == IF signed THEN Tail(s) ELSE s
    IN  IF digits # <<>> /\ \A i \in DOMAIN digits : digits[i] \in Range(DigitChars)
        THEN [ok |-> TRUE,
              n |-> IF signed /\ s[1] = "-" THEN 0 - DigitsValue(digits)
                    ELSE DigitsValue(digits)]
        ELSE [ok |-> FALSE, n |-> 0]

\* {"noleap": 365, "360_day": 360, "all_leap": 366}.get(calendar, 365.25), in hundredths.
DaysPerYear100(calendar) ==
    CASE calendar = "noleap" -> 36500
      [] calendar = "360_day" -> 36000
      [] calendar = "all_leap" -> 36600
      [] OTHER -> 36525

\* A conversion that rounds down instead.
YearsToDaysFloor(n, calendar) == (n * DaysPerYear100(calendar)) \div 100

\* int(n * days per year): int() cuts the fraction off, towards zero.
YearsToDays(n, calendar) ==
    LET Nt100 == n * DaysPerYear100(calendar)
    IN  IF Nt100 >= 0 THEN Nt100 \div 100 ELSE 0 - ((0 - Nt100) \div 100)

\* The loop over chunks.items() from the i-th item on.  chunks is changed in place; a
\* nested dict is replaced by the translation of a copy of it.
RECURSIVE TranslateFrom(_, _, _, _)
TranslateFrom(chunks, i, calendar, timesize) ==
    IF i > Len(chunks) THEN [ok |-> TRUE, chunks |-> chunks]
    ELSE LET k == chunks[i][1]
             v == chunks[i][2]
         IN  IF v.t = "dict"
             THEN LET r == TranslateFrom(v.v, 1, calendar, timesize)
                  IN  IF r.ok
                      THEN TranslateFrom(DictSet(chunks, k, Dict(r.chunks)), i + 1,
                                         calendar, timesize)
                      ELSE [ok |-> FALSE, chunks |-> chunks]
             ELSE IF k = "time" /\ v.t # "NoneType"
             THEN IF v.t = "str" /\ EndsWith(v.v, YEAR)
                  THEN LET n == ParseInt(SplitFirst(DictGet(chunks, "time").v, YEAR))
                       IN  IF n.ok
                           THEN TranslateFrom(
                                    DictSet(chunks, k, IntVal(YearsToDays(n.n, calendar))),
                                    i + 1, calendar, timesize)
                           ELSE [ok |-> FALSE, chunks |-> chunks]
                  ELSE IF v = IntVal(-1)
                  THEN TranslateFrom(DictSet(chunks, k, IntVal(timesize)), i + 1,
                                     calendar, timesize)
                  ELSE TranslateFrom(chunks, i + 1, calendar, timesize)
             ELSE TranslateFrom(chunks, i + 1, calendar, timesize)

translate_time_chunk(chunks, calendar, timesize) == TranslateFrom(chunks, 1, calendar, timesize)

\* str(n) for n >= 0
RECURSIVE Show(_)
Show(n) ==
    IF n < 10 THEN <<DigitChars[n + 1]>>
    ELSE Show(n \div 10) \o <<DigitChars[(n % 10) + 1]>>

\* Strings given under a key: "Nyear" in canonical form, and others.
ChunkStrings ==
    {Show(n) \o YEAR : n \in 0..MaxYears}
        \cup {<<"1", "0", "y", "e", "a", "r">>, <<"-", "1", "y", "e", "a", "r">>, <<"-", "2", "y", "e", "a", "r">>, <<"+", "2", "y", "e", "a", "r">>, <<"y", "e", "a", "r">>, <<"1", ".", "5", "y", "e", "a", "r">>, <<"a", "u", "t", "o">>, <<"2", "y", "e", "a", "r", "s">>,
              <<"1", "y", "e", "a", "r", "2", "y", "e", "a", "r">>}

NestedLeaves == {None, IntVal(-1), Str(<<"2", "y", "e", "a", "r">>), Str(<<"y", "e", "a", "r">>)}

\* Dicts without a nested dict.
FlatChunks ==
    {<<>>} \cup {<< <<"time", l>> >> : l \in NestedLeaves}
           \cup {<< <<"lat", IntVal(-1)>>, <<"time", l>> >> : l \in NestedLeaves}

\* Dicts nesting exactly d deep: a nested dict under another key, or under "time".
RECURSIVE ChunksAt(_)
ChunksAt(d) ==
    IF d = 0 THEN FlatChunks
    ELSE {b \o << <<"sub", Dict(n)>> >> : b \in FlatChunks, n \in ChunksAt(d - 1)}
           \cup {<< <<"time", Dict(n)>> >> : n \in ChunksAt(d - 1)}

InitTC ==
    /\ \/ \E l \in {None, IntVal(-1), IntVal(0), IntVal(10)} \cup {Str(x) : x \in ChunkStrings},
            o \in {None, IntVal(-1), Str(<<"2", "y", "e", "a", "r">>)},
            c \in {"noleap", "360_day", "all_leap", "standard", "365_day",
                   "proleptic_gregorian"},
            n \in {0, 100} :
             \/ tc = [pc |-> "call", chunks |-> << <<"time", l>>, <<"lat", o>> >>,
                      calendar |-> c, timesize |-> n]
             \/ tc = [pc |-> "call", chunks |-> << <<"lat", o>>, <<"time", l>> >>,
                      calendar |-> c, timesize |-> n]
       \/ \E d \in 0..MaxDepth :
             \E ch \in ChunksAt(d), c \in {"noleap", "standard"} :
                tc = [pc |-> "call", chunks |-> ch, calendar |-> c, timesize |-> 100]
    /\ mc = Idle /\ stk = Idle /\ cu = Idle /\ cl = Idle /\ ud = Idle /\ cv = Idle
    /\ ns = Idle /\ se = Idle

\* The call: arg keeps the dict as it was given, chunks is the caller's dict afterwards.
CallTranslateTimeChunk ==
    /\ tc.pc = "call"
    /\ LET r == translate_time_chunk(tc.chunks, tc.calendar, tc.timesize)
       IN  tc' = [pc |-> IF r.ok THEN "done" ELSE "error", arg |-> tc.chunks,
                  chunks |-> r.chunks, calendar |-> tc.calendar, timesize |-> tc.timesize,
                  out |-> IF r.ok THEN r.chunks ELSE <<>>]
    /\ UNCHANGED <<mc, stk, cu, cl, ud, cv, ns, se>>

NextTC == CallTranslateTimeChunk

SpecTC == InitTC /\ [][NextTC]_vars

\* The decimal text of an integer.
C12_Literal(n) == IF n >= 0 THEN Show(n) ELSE <<"-">> \o Show(0 - n)

\* The integers a string spells, with or without a plus sign, right before its first "year".
C12_Years(s) ==
    {n \in (0 - 20)..20 :
        \E lit \in {C12_Literal(n), <<"+">> \o C12_Literal(n)} :
            Len(s) >= Len(lit) + 4 /\ SubSeq(s, 1, Len(lit) + 4) = lit \o <<"y", "e", "a", "r">>}

\* Four times the days per year of a calendar.
C12_QuarterDays(calendar) ==
    CASE calendar = "noleap" -> 4 * 365
      [] calendar = "360_day" -> 4 * 360
      [] calendar = "all_leap" -> 4 * 366
      [] OTHER -> 1461

C12_IsYearString(v) ==
    /\ v.t = "str"
    /\ Len(v.v) >= 4
    /\ SubSeq(v.v, Len(v.v) - 3, Len(v.v)) = <<"y", "e", "a", "r">>

\* Some "time" entry, at any depth, ends in "year" without an integer before its first "year".
RECURSIVE C12_Malformed(_)
C12_Malformed(chunks) ==
    \E i \in DOMAIN chunks :
        LET k == chunks[i][1]
            v == chunks[i][2]
        IN  \/ v.t = "dict" /\ C12_Malformed(v.v)
            \/ k = "time" /\ C12_IsYearString(v) /\ C12_Years(v.v) = {}

\* The translation of chunks; down is TRUE to round the days down, FALSE to cut the
\* fraction off; lenient is TRUE to leave a malformed "...year" string as it is.
RECURSIVE C12_Translated(_, _, _)
C12_Translated(chunks, down, lenient) ==
    [i \in DOMAIN chunks |->
        LET k == chunks[i][1]
            v == chunks[i][2]
        IN  IF v.t = "dict" THEN <<k, Dict(C12_Translated(v.v, down, lenient))>>
            ELSE IF k = "time" /\ v = IntVal(-1) THEN <<k, IntVal(tc.timesize)>>
            ELSE IF k = "time" /\ C12_IsYearString(v) /\ ~(lenient /\ C12_Years(v.v) = {})
            THEN LET n == CHOOSE n \in C12_Years(v.v) : TRUE
                     q == n * C12_QuarterDays(tc.calendar)
                 IN  <<k, IntVal(IF down \/ q >= 0 THEN q \div 4 ELSE 0 - ((0 - q) \div 4))>>
            ELSE <<k, v>>]

\* C12 (as amended): under the key "time", at any depth, -1 becomes timesize and a string
\* ending in "year" becomes N times the days per year of the calendar (365, 360, 366, or
\* 365.25 for any other calendar) with the fraction cut off, N being the integer written
\* before the string's first "year"; when that text is not an integer the call raises
\* ValueError.  Dicts are translated entry by entry under any key; everything else is
\* returned unchanged, and the caller's dict is the one returned.
C12_Translate ==
    tc.pc \in {"done", "error"} =>
        /\ tc.pc = "error" <=> C12_Malformed(tc.arg)
        /\ tc.pc = "done" =>
             /\ tc.out = C12_Translated(tc.arg, FALSE, FALSE)
             /\ tc.chunks = tc.out
             /\ (tc.arg = << <<"time", IntVal(-1)>>, <<"lat", None>> >>
                   /\ tc.calendar = "standard" /\ tc.timesize = 100)
                  => tc.out = << <<"time", IntVal(100)>>, <<"lat", None>> >>
             /\ (tc.arg = << <<"time", Str(<<"2", "y", "e", "a", "r">>)>>, <<"lat", None>> >>
                   /\ tc.calendar = "noleap")
                  => tc.out = << <<"time", IntVal(730)>>, <<"lat", None>> >>

\* A negative N on a calendar of 365.25 days: -365.25 is cut to -365.
C12_Witness ==
    /\ tc.pc = "done"
    /\ tc.arg = << <<"lat", Str(<<"2", "y", "e", "a", "r">>)>>, <<"time", Str(<<"-", "1", "y", "e", "a", "r">>)>> >>
    /\ tc.calendar = "standard"
    /\ tc.out = << <<"lat", Str(<<"2", "y", "e", "a", "r">>)>>, <<"time", IntVal(0 - 365)>> >>

\* A string ending in "year" with no integer before it, two dicts down.
C12_WitnessError ==
    /\ tc.pc = "error"
    /\ \E i \in DOMAIN tc.arg :
         /\ tc.arg[i][2].t = "dict"
         /\ \E j \in DOMAIN tc.arg[i][2].v :
              /\ tc.arg[i][2].v[j][2].t = "dict"
              /\ C12_Malformed(tc.arg[i][2].v[j][2].v)

\* C12 (as stated): the call returns; "Nyear" becomes the floor of N times the days per
\* year, -1 becomes timesize, and any other value is returned unchanged.
C12_Original ==
    tc.pc \in {"done", "error"} =>
        /\ tc.pc = "done"
        /\ tc.out = C12_Translated(tc.arg, TRUE, TRUE)

(***************************************************************************)
(* natural_sort                                                            *)
(*                                                                         *)
(* The characters are listed in the order of their code points; "SUP2" is  *)
(* the superscript two (U+00B2), a digit for str.isdigit() that neither    *)
(* the pattern [0-9] nor int() takes.                                      *)
(***************************************************************************)
\* Longest list given to natural_sort.
MaxList == 3

CodePoints == <<"0", "1", "2", "3", "9", "A", "B", "R", "a", "b", "i", "p", "r", "SUP2">>

Ord(c) == CHOOSE i \in DOMAIN CodePoints : CodePoints[i] = c

\* [0-9]
AsciiDigits == {"0", "1", "2", "3", "9"}

\* text.lower()
Lower(text) ==
    [i \in DOMAIN text |->
        CASE text[i] = "A" -> "a"
          [] text[i] = "B" -> "b"
          [] text[i] = "R" -> "r"
          [] OTHER -> text[i]]

\* The length of the longest run of characters of S (or, with inS FALSE, of characters
\* outside S) that key starts with.
RECURSIVE RunLength(_, _, _)
RunLength(key, S, inS) ==
    IF key = <<>> \/ ((key[1] \in S) # inS) THEN 0
    ELSE 1 + RunLength(Tail(key), S, inS)

\* re.split("([0-9]+)", key): the text up to the first run of digits, the run, and so
\* on; the list starts and ends with a text, which may be empty.
RECURSIVE ReSplit(_)
ReSplit(key) ==
    LET n == RunLength(key, AsciiDigits, FALSE)
        rest == SubSeq(key, n + 1, Len(key))
        m == RunLength(rest, AsciiDigits, TRUE)
    IN  IF rest = <<>> THEN <<SubSeq(key, 1, n)>>
        ELSE <<SubSeq(key, 1, n), SubSeq(rest, 1, m)>>
                 \o ReSplit(SubSeq(rest, m + 1, Len(rest)))

\* text.isdigit(): true of a non-empty text of the digits 0-9 and the superscript two.
IsDigit(text) ==
    text # <<>> /\ \A i \in DOMAIN text : text[i] \in AsciiDigits \cup {"SUP2"}

\* convert(text): int(text) if text.isdigit() else text.lower()
Convert(text) ==
    IF IsDigit(text)
    THEN IF \A i \in DOMAIN text : text[i] \in AsciiDigits
         THEN [ok |-> TRUE, t |-> "int", v |-> <<DigitsValue(text)>>]
         ELSE [ok |-> FALSE, t |-> "int", v |-> <<>>]
    ELSE [ok |-> TRUE, t |-> "str", v |-> Lower(text)]

\* alphanum_key(key)
AlphanumKey(key) == LET parts == ReSplit(key) IN [i \in DOMAIN parts |-> Convert(parts[i])]

\* a < b for two str, by code point.
StrLess(a, b) ==
    \E i \in 1..(Len(a) + 1) :
        /\ i <= Len(b)
        /\ \A j \in 1..(i - 1) : a[j] = b[j]
        /\ i = Len(a) + 1 \/ Ord(a[i]) < Ord(b[i])

\* x < y for two keys (lists): decided at the first place they differ, the shorter
\* first when there is none.  An int is never met with a str: the parts alternate.
ListLess(x, y) ==
    \E i \in 1..(Len(x) + 1) :
        /\ i <= Len(y)
        /\ \A j \in 1..(i - 1) : x[j] = y[j]
        /\ \/ i = Len(x) + 1
           \/ /\ x[i] # y[i]
              /\ IF x[i].t = "int" THEN x[i].v[1] < y[i].v[1] ELSE StrLess(x[i].v, y[i].v)

\* Insert item into a sorted list after every item not greater than it.
RECURSIVE InsertByKey(_, _)
InsertByKey(sorted, item) ==
    IF sorted = <<>> THEN <<item>>
    ELSE IF ListLess(AlphanumKey(item), AlphanumKey(sorted[Len(sorted)]))
    THEN Append(InsertByKey(SubSeq(sorted, 1, Len(sorted) - 1), item), sorted[Len(sorted)])
    ELSE Append(sorted, item)

\* sorted(_list, key=alphanum_key): a stable sort.
RECURSIVE SortedByKey(_)
SortedByKey(list) ==
    IF list = <<>> THEN <<>>
    ELSE InsertByKey(SortedByKey(SubSeq(list, 1, Len(list) - 1)), list[Len(list)])

\* The keys are computed first; one that cannot be raises ValueError.
natural_sort(list) ==
    IF \E i \in DOMAIN list :
          \E j \in DOMAIN AlphanumKey(list[i]) : ~AlphanumKey(list[i])[j].ok
    THEN [ok |-> FALSE, out |-> <<>>, error |-> "ValueError"]
    ELSE [ok |-> TRUE, out |-> SortedByKey(list), error |-> ""]

SortStrings ==
    {<<"r", "1", "0", "i", "1", "p", "1">>, <<"r", "1", "i", "1", "p", "1">>, <<"r", "3", "i", "1", "p", "1">>, <<"R", "3", "i", "1", "p", "1">>, <<"a", "1">>, <<"A", "1">>, <<"a", "0", "1">>, <<"a">>, <<>>, <<"1", "0">>, <<"9">>,
     <<"b", "2">>, <<"B", "1", "0">>, <<"a", "b">>, <<"SUP2">>, <<"a", "1", "SUP2">>, <<"a", "SUP2">>}

InitNS ==
    /\ \E l \in SeqsUpTo(SortStrings, MaxList) : ns = [pc |-> "call", list |-> l]
    /\ mc = Idle /\ stk = Idle /\ cu = Idle /\ cl = Idle /\ ud = Idle /\ cv = Idle
    /\ tc = Idle /\ se = Idle

\* The call: arg is the list as given, list the caller's list afterwards.
CallNaturalSort ==
    /\ ns.pc = "call"
    /\ LET r == natural_sort(ns.list)
       IN  ns' = [pc |-> IF r.ok THEN "done" ELSE "error", arg |-> ns.list,
                  list |-> ns.list, out |-> r.out, error |-> r.error]
    /\ UNCHANGED <<mc, stk, cu, cl, ud, cv, tc, se>>

NextNS == CallNaturalSort

SpecNS == InitNS /\ [][NextNS]_vars

\* The maximal runs of a string: each a run of the digits 0-9 with its number, or the
\* text between two such runs in lower case.
RECURSIVE C13_Runs(_)
C13_Runs(str) ==
    IF str = <<>> THEN <<>>
    ELSE LET digits == str[1] \in AsciiDigits
             n == CHOOSE n \in 1..Len(str) :
                    /\ \A i \in 1..n : (str[i] \in AsciiDigits) = digits
                    /\ n = Len(str) \/ (str[n + 1] \in AsciiDigits) # digits
             run == SubSeq(str, 1, n)
         IN  << [digits |-> digits,
                 text |-> IF digits THEN <<>> ELSE Lower(run),
                 number |-> IF digits THEN DigitsValue(run) ELSE 0] >>
                \o C13_Runs(SubSeq(str, n + 1, Len(str)))

\* a comes no later than b in the natural order: at the first run where they differ the
\* numbers or the texts decide, a number coming before a text; a string that is the
\* beginning of another comes first.
C13_NotAfter(a, b) ==
    LET x == C13_Runs(a)
        y == C13_Runs(b)
    IN  \/ x = y
        \/ \E i \in 1..(Len(x) + 1) :
             /\ i <= Len(y)
             /\ \A j \in 1..(i - 1) : x[j] = y[j]
             /\ \/ i = Len(x) + 1
                \/ x[i].digits /\ ~y[i].digits
                \/ x[i].digits /\ y[i].digits /\ x[i].number < y[i].number
                \/ ~x[i].digits /\ ~y[i].digits /\ StrLess(x[i].text, y[i].text)

C13_Count(list, x) == Cardinality({i \in DOMAIN list : list[i] = x})

C13_SortedPermutation ==
    /\ ns.pc = "done"
    /\ Len(ns.out) = Len(ns.arg)
    /\ \A i \in DOMAIN ns.arg : C13_Count(ns.out, ns.arg[i]) = C13_Count(ns.arg, ns.arg[i])
    /\ \A i, j \in DOMAIN ns.out : i < j => C13_NotAfter(ns.out[i], ns.out[j])
    /\ ns.list = ns.arg
    /\ ns.arg = <<<<"r", "1", "0", "i", "1", "p", "1">>, <<"r", "1", "i", "1", "p", "1">>, <<"r", "3", "i", "1", "p", "1">>>> => ns.out = <<<<"r", "1", "i", "1", "p", "1">>, <<"r", "3", "i", "1", "p", "1">>, <<"r", "1", "0", "i", "1", "p", "1">>>>

\* C13: for every list of strings natural_sort returns a permutation of the list in
\* which digit runs compare by their number and the text between them without regard
\* to case, and the list given is not modified.
C13_NaturalOrder == ns.pc \in {"done", "error"} => C13_SortedPermutation

\* C13 for the lists in which str.isdigit() accepts no character but 0-9: natural_sort
\* returns the sorted permutation.
C13_AsciiNaturalOrder ==
    (ns.pc \in {"done", "error"}
       /\ \A i \in DOMAIN ns.arg : \A j \in DOMAIN ns.arg[i] : ns.arg[i][j] # "SUP2")
      => C13_SortedPermutation

(***************************************************************************)
(* _search, on its own                                                     *)
(***************************************************************************)
\* Longest pattern and longest attribute name drawn from the alphabet.
MaxChars == 3

\* The two marks and two other characters.
SearchAlphabet == {"*", "^", "a", "b"}

InitSearch ==
    /\ \/ \E a \in NonEmptySeqsUpTo(SearchAlphabet, MaxChars),
            b \in SeqsUpTo(SearchAlphabet, MaxChars) :
             se = [pc |-> "call", a |-> a, b |-> b]
       \/ \E a \in {<<"c", "e", "l", "l", "*">>, <<"^", "c", "a", "t", ":">>, <<"e", "x", "a", "c", "t">>}, b \in {<<"h", "a", "s", "_", "c", "e", "l", "l", "_", "h", "e", "r", "e">>, <<"c", "a", "t", ":", "d", "o", "m", "a", "i", "n">>, <<"e", "x", "a", "c", "t">>, <<"o", "t", "h", "e", "r">>} :
             se = [pc |-> "call", a |-> a, b |-> b]
    /\ mc = Idle /\ stk = Idle /\ cu = Idle /\ cl = Idle /\ ud = Idle /\ cv = Idle
    /\ tc = Idle /\ ns = Idle

CallSearch ==
    /\ se.pc = "call"
    /\ se' = [pc |-> "done", a |-> se.a, b |-> se.b, result |-> _search(se.a, se.b)]
    /\ UNCHANGED <<mc, stk, cu, cl, ud, cv, tc, ns>>

NextSearch == CallSearch

SpecSearch == InitSearch /\ [][NextSearch]_vars

\* C16: for a non-empty pattern a, _search(a, b) is true exactly when: a ends with "*"
\* and a without its last character occurs in b (also when a starts with "^"); or a
\* does not end with "*", starts with "^", and b starts with a without its first
\* character; or a has neither mark and equals b.
C16_Search ==
    se.pc = "done" =>
        /\ se.result = Matches(se.a, se.b)
        /\ (se.a = <<"c", "e", "l", "l", "*">> /\ se.b = <<"h", "a", "s", "_", "c", "e", "l", "l", "_", "h", "e", "r", "e">>) => se.result
        /\ (se.a = <<"^", "c", "a", "t", ":">> /\ se.b = <<"c", "a", "t", ":", "d", "o", "m", "a", "i", "n">>) => se.result
        /\ (se.a = <<"e", "x", "a", "c", "t">> /\ se.b = <<"e", "x", "a", "c", "t">>) => se.result
        /\ (se.a = <<"e", "x", "a", "c", "t">> /\ se.b = <<"o", "t", "h", "e", "r">>) => ~se.result

\* Both marks: "^a" occurs inside "b^a", which does not start with "a*".
C16_Witness ==
    /\ se.pc = "done"
    /\ se.a = <<"^", "a", "*">>
    /\ se.b = <<"b", "^", "a">>
    /\ se.result

====
